---- MODULE Spec2Model ----
(***************************************************************************)
(* zfsHeartbeat: the pool-status parser (zpool.go), the health evaluation  *)
(* and the self-test scan (main.go), as one state machine that follows     *)
(* main().                                                                 *)
(*                                                                         *)
(* Text.  A Go string that holds a single blank-free word (a name, a       *)
(* state) is a TLA+ string.  A Go string that holds running text is the    *)
(* sequence of its blank-separated words; leading whitespace of a line is  *)
(* the word Tab and a line break inside a string is the word NL.  A line   *)
(* of input is [ind, toks]: whether it starts with whitespace, and its     *)
(* words.  Rows of the device table are column-padded (two or more blanks  *)
(* between columns), as zpool prints them.                                 *)
(***************************************************************************)
EXTENDS Integers, Sequences, FiniteSets, TLC

VARIABLES
    pc,          \* where main() is
    tmpl,        \* which document the executer returns for "zpool status"
    pos,         \* lines of the document the bufio.Scanner has consumed
    edits,       \* lines of the document that differ from its template
    eof,         \* the scanner has hit the end of the document
    line,        \* scanner.Text(): the line handed to parsePoolState last
    skipped,     \* the lines the last call consumed with bare scanner.Scan()
    scanSeen,    \* per pool, the scan line as it stood in the document
    pools,       \* parsePools: var pools []pool
    heap,        \* the backing arrays of the pools' vdevs slices
    parseState,  \* parsePools: var parseState zpoolParseState
    diag,        \* checkPoolStatus: var errs []string, each with its origin
    perr,        \* the error checkPoolStatus returns
    calls,       \* checkSmartStatus: the disks the executer was asked about
    logs,        \* the self-test log the executer returned for each of them
    oldest,      \* checkSmartStatus: named result oldest
    youngest,    \* checkSmartStatus: named result youngest
    serr,        \* the error checkSmartStatus returns
    executed,    \* every call of the executer: its command and its error
    notified,    \* titles and bodies handed to notify()
    now,         \* time.Now(), in hours
    cfgFile,     \* heartbeat.json: the LastUpdated of each object written
    sent,        \* the calls of app.SendMessage: when, and the title
    usage,       \* diskUsage: the map it returns, in the order it was filled
    uerr,        \* the error diskUsage returns
    clock        \* main: the time.Now() handed to shouldNotify

vars == <<pc, tmpl, pos, edits, eof, line, skipped, scanSeen, pools, heap,
          parseState, diag, perr, calls, logs, oldest, youngest, serr, executed,
          notified, now, cfgFile, sent, usage, uerr, clock>>

(***************************************************************************)
(* Bounds of the model.                                                    *)
(***************************************************************************)
\* how many lines of a document may differ from its template
MaxEdits == 1

(***************************************************************************)
(* Words.                                                                  *)
(***************************************************************************)
Tab == "\t"
NL == "\n"

UuidA == "e43d41b6-adcc-11e5-b06a-d43d7ef79ff0"
UuidB == "41f3a6d2-9102-11e2-a05e-b8975a0e7ea1"
UuidC == "7c1e52aa-0b1f-4d0e-9a3c-5e2f6a7b8c92"
UuidS == "f9aeb0c4-a208-4118-a5e3-0d01bfb36743"
UuidX == "0a1b2c3d-1111-2222-3333-444455556667"
BigNum == "14803813886136010794"

\* words made of digits only (\d+)
DigitToks == {"0", "1", "2", "50", "100", "150", "200", "300", BigNum}
\* words of the shape \w{8}-\w{4}-\w{4}-\w{4}-\w{12}
UuidToks == {UuidA, UuidB, UuidC, UuidS, UuidX}
\* words of the shape nvme\w+
NvmeToks == {"nvme0n1"}
\* words with a character outside \w
NonWordToks == UuidToks \cup {"pool:", "state:", "status:", "action:", "scan:",
                              "config:", "errors:", "mirror-0", "mirror-1",
                              "raidz2-0", "/dev/gptid/4167d912", "opened.",
                              "00:10:00"}
\* words whose last character is a digit
EndsInDigit == DigitToks \cup {UuidA, UuidS, "mirror-0", "mirror-1", "raidz2-0",
                               "nvme0n1", "/dev/gptid/4167d912", "00:10:00"}
\* words made of capital letters only ([A-Z]+)
UpperToks == {"ONLINE", "DEGRADED", "OFFLINE", "UNAVAIL", "AVAIL", "NAME",
              "STATE", "READ", "WRITE", "CKSUM"}

IsWord(t) == t \notin NonWordToks
StartsWithWordChar(t) == t /= "/dev/gptid/4167d912"

\* strings.Contains(word, sub) for the three substrings the parser looks for
HasSub(t, sub) ==
    CASE sub = "mirror-" -> t \in {"mirror-0", "mirror-1"}
      [] sub = "raidz"   -> t \in {"raidz2-0"}
      [] sub = "spares"  -> t \in {"spares"}
      [] OTHER           -> FALSE

\* strconv.Atoi and the %d verb of Sscanf on a word that is a decimal number
\* in the range of int (BigNum is not), and the %d verb of Sprintf back
IntToks == {"0", "1", "2", "50", "100", "150", "200", "300"}
Atoi(t) == CASE t = "0" -> 0 [] t = "1" -> 1 [] t = "2" -> 2
             [] t = "50" -> 50 [] t = "100" -> 100 [] t = "150" -> 150
             [] t = "200" -> 200 [] t = "300" -> 300
Itoa(n) == CASE n = 0 -> "0" [] n = 1 -> "1" [] n = 2 -> "2"
             [] n = 50 -> "50" [] n = 100 -> "100" [] n = 150 -> "150"
             [] n = 200 -> "200" [] n = 300 -> "300"

(***************************************************************************)
(* Lines.                                                                  *)
(***************************************************************************)
Line(ind, toks) == [ind |-> ind, toks |-> toks]

\* the line as a string
LineText(l) == (IF l.ind THEN <<Tab>> ELSE <<>>) \o l.toks
\* strings.TrimSpace(line)
TrimSpace(l) == l.toks
\* strings.HasPrefix(trimmedLine, key + " ")
HasPrefix(toks, key) == Len(toks) >= 2 /\ toks[1] = key
\* strings.Contains(line, sub)
Contains(l, sub) == \E i \in 1..Len(l.toks) : HasSub(l.toks[i], sub)

\* strings.Contains(text, phrase): the words of phrase, in a row
ContainsPhrase(text, phrase) ==
    \E i \in 0..(Len(text) - Len(phrase)) :
        \A j \in 1..Len(phrase) : text[i + j] = phrase[j]

(***************************************************************************)
(* fmt.Sscanf(words, format): the format is a sequence of literals, "%s"   *)
(* and "%d"; blanks in input and format separate words.  Scanning stops at *)
(* the first word that is missing or does not fit, with an error; words    *)
(* beyond the format are ignored.                                          *)
(***************************************************************************)
Fits(toks, fmt, i) ==
    /\ i <= Len(toks)
    /\ CASE fmt[i] = "%s" -> TRUE
         [] fmt[i] = "%d" -> toks[i] \in IntToks
         [] OTHER         -> toks[i] = fmt[i]

Sscanf(toks, fmt) == \A i \in 1..Len(fmt) : Fits(toks, fmt, i)

RowFmt == <<"%s", "%s", "%d", "%d", "%d">>

(***************************************************************************)
(* The two regular expressions of zpool.go.                                *)
(***************************************************************************)
\* diskRe.MatchString(line)
diskRe(l) ==
    LET t == l.toks
    IN  /\ l.ind
        /\ Len(t) >= 1
        /\ \/ t[1] \in UuidToks /\ Len(t) >= 2
           \/ t[1] \in NvmeToks
           \/ /\ Len(t) >= 6
              /\ IsWord(t[1]) /\ IsWord(t[2])
              /\ \A i \in 3..5 : t[i] \in DigitToks
              /\ StartsWithWordChar(t[6])

\* diskMessageRe.FindStringSubmatch(line): <<>> when nothing matches, else
\* <<matches[1]>>.  The match starts at the leftmost place where it can.
MessageStarts(l) ==
    LET t == l.toks
    IN  {i \in 1..Len(t) :
            \/ /\ i >= 4
               /\ t[i - 3] \in EndsInDigit
               /\ t[i - 2] \in DigitToks
               /\ t[i - 1] \in DigitToks
            \/ /\ i = 3
               /\ ~l.ind
               /\ IsWord(t[1])
               /\ t[2] \in UpperToks}

diskMessageRe(l) ==
    IF MessageStarts(l) = {} THEN <<>>
    ELSE LET i == CHOOSE k \in MessageStarts(l) :
                      \A m \in MessageStarts(l) : k <= m
         IN  <<SubSeq(l.toks, i, Len(l.toks))>>

(***************************************************************************)
(* The records of zpool.go.                                                *)
(***************************************************************************)
vdevTypeNone == 0
vdevTypeRaidz == 1
vdevTypeSpare == 2

zpoolParseStart == 0
zpoolParseStatus == 1
zpoolParseScan == 2
zpoolParsePool == 3
zpoolParseVdev == 4
zpoolParseDisk == 5
zpoolParseErrors == 6

\* a nil []vdev
NilSlice == [arr |-> 0, len |-> 0, cap |-> 0]

\* the zero values: var p pool, vdev{}, var disk vdevDisk
EmptyPool == [name |-> "", state |-> "", status |-> <<>>, scanStatus |-> <<>>,
              read |-> 0, write |-> 0, checksum |-> 0, vdevs |-> NilSlice,
              errors |-> <<>>]
EmptyVdev == [name |-> "", state |-> "", typev |-> vdevTypeNone, disks |-> <<>>,
              read |-> 0, write |-> 0, checksum |-> 0]
EmptyDisk == [vdev |-> [arr |-> 0, idx |-> 0], name |-> "", state |-> "",
              read |-> 0, write |-> 0, checksum |-> 0, message |-> <<>>]

NoErr == [kind |-> "nil"]
\* fmt.Errorf("parse error (%d) %s: '%s'", parseState, err, line)
ParseError(l) == [kind |-> "parse", line |-> l]
\* fmt.Errorf("expected pool name %s to match name %s", name, p.name)
NameError(got, want) == [kind |-> "name", got |-> got, want |-> want]
\* fmt.Errorf("expected pool state %s to match state %s", state, p.state)
StateError(got, want) == [kind |-> "state", got |-> got, want |-> want]

(***************************************************************************)
(* p.vdevs = append(p.vdevs, vdev{}).  A slice is a window [arr, len, cap] *)
(* on a backing array of the heap.  append writes in place while len <     *)
(* cap; otherwise it allocates an array of twice the capacity (1 for a nil *)
(* slice), copies the elements and leaves the old array as it was.         *)
(***************************************************************************)
GrowCap(c) == IF c = 0 THEN 1 ELSE c + c

AppendVdev(h, s) ==
    IF s.len < s.cap
    THEN [heap  |-> [h EXCEPT ![s.arr] = Append(SubSeq(@, 1, s.len), EmptyVdev)],
          slice |-> [s EXCEPT !.len = s.len + 1]]
    ELSE LET old == IF s.arr = 0 THEN <<>> ELSE SubSeq(h[s.arr], 1, s.len)
         IN  [heap  |-> Append(h, Append(old, EmptyVdev)),
              slice |-> [arr |-> Len(h) + 1, len |-> s.len + 1,
                         cap |-> GrowCap(s.cap)]]

\* the elements of a []vdev
Elems(h, s) == IF s.arr = 0 THEN <<>> ELSE SubSeq(h[s.arr], 1, s.len)
\* *ref for a *vdev
Deref(h, ref) == h[ref.arr][ref.idx]

(***************************************************************************)
(* parsePoolState, one case of its switch per operator.  c is the parser's *)
(* configuration [pools, heap, parseState]; the result adds err, newPool   *)
(* (<<>> for nil, else <<pool>>) and skip, the number of bare              *)
(* scanner.Scan() calls made.                                              *)
(***************************************************************************)
Ret(ps, h, st, e, np, sk) ==
    [pools |-> ps, heap |-> h, parseState |-> st, err |-> e, newPool |-> np,
     skip |-> sk]

Fail(c, e) == Ret(c.pools, c.heap, c.parseState, e, <<>>, 0)

\* an assignment through a p that points at the first pool
SetPFirst(c, field, value) ==
    [c.pools EXCEPT ![1] = [@ EXCEPT ![field] = value]]

\* p = &pools[len(pools)-1]; p.field = value
SetP(c, field, value) ==
    [c.pools EXCEPT ![Len(c.pools)] = [@ EXCEPT ![field] = value]]

caseStart(c, l) ==
    IF ~Sscanf(l.toks, <<"pool:", "%s">>)
    THEN Fail(c, ParseError(l))
    ELSE Ret(c.pools, c.heap, c.parseState + 1, NoErr,
             <<[EmptyPool EXCEPT !.name = l.toks[2]]>>, 0)

\* a Scan case that skips two lines
caseScanSkipsTwo(c, l) ==
    IF ~Sscanf(l.toks, <<"scan:", "%s">>)
    THEN Fail(c, ParseError(l))
    ELSE Ret(SetP(c, "scanStatus", <<l.toks[2]>>), c.heap, c.parseState + 1,
             NoErr, <<>>, 2)

caseScan(c, l) ==
    IF ~Sscanf(l.toks, <<"scan:", "%s">>)
    THEN Fail(c, ParseError(l))
    ELSE Ret(SetP(c, "scanStatus", <<l.toks[2]>>), c.heap, c.parseState + 1,
             NoErr, <<>>, 3)

\* a Status case without the branch for "action:" lines
caseStatusNoAction(c, l) ==
    LET trimmedLine == TrimSpace(l)
        p == c.pools[Len(c.pools)]
    IN  CASE HasPrefix(trimmedLine, "scan:") ->
                caseScan([c EXCEPT !.parseState = zpoolParseScan], l)
          [] HasPrefix(trimmedLine, "status:") ->
                Ret(SetP(c, "status", trimmedLine), c.heap, c.parseState,
                    NoErr, <<>>, 0)
          [] HasPrefix(trimmedLine, "state:") ->
                IF ~Sscanf(trimmedLine, <<"state:", "%s">>)
                THEN Fail(c, ParseError(l))
                ELSE Ret(SetP(c, "state", trimmedLine[2]), c.heap,
                         c.parseState, NoErr, <<>>, 0)
          [] OTHER ->
                Ret(SetP(c, "status", p.status \o LineText(l)), c.heap,
                    c.parseState, NoErr, <<>>, 0)

caseStatus(c, l) ==
    LET trimmedLine == TrimSpace(l)
        p == c.pools[Len(c.pools)]
    IN  CASE HasPrefix(trimmedLine, "scan:") ->
                caseScan([c EXCEPT !.parseState = zpoolParseScan], l)
          [] HasPrefix(trimmedLine, "action:") ->
                Ret(c.pools, c.heap, c.parseState, NoErr, <<>>, 0)
          [] HasPrefix(trimmedLine, "status:") ->
                Ret(SetP(c, "status", trimmedLine), c.heap, c.parseState,
                    NoErr, <<>>, 0)
          [] HasPrefix(trimmedLine, "state:") ->
                IF ~Sscanf(trimmedLine, <<"state:", "%s">>)
                THEN Fail(c, ParseError(l))
                ELSE Ret(SetP(c, "state", trimmedLine[2]), c.heap,
                         c.parseState, NoErr, <<>>, 0)
          [] OTHER ->
                Ret(SetP(c, "status", p.status \o LineText(l)), c.heap,
                    c.parseState, NoErr, <<>>, 0)

\* a Pool case that compares the name of the row but not its state
casePoolNameOnly(c, l) ==
    LET p == c.pools[Len(c.pools)]
        t == l.toks
    IN  IF ~Sscanf(t, RowFmt) THEN Fail(c, ParseError(l))
        ELSE IF t[1] /= p.name THEN Fail(c, NameError(t[1], p.name))
        ELSE Ret([c.pools EXCEPT ![Len(c.pools)] =
                      [@ EXCEPT !.read = Atoi(t[3]), !.write = Atoi(t[4]),
                                !.checksum = Atoi(t[5])]],
                 c.heap, c.parseState + 1, NoErr, <<>>, 0)

casePool(c, l) ==
    LET p == c.pools[Len(c.pools)]
        t == l.toks
    IN  IF ~Sscanf(t, RowFmt) THEN Fail(c, ParseError(l))
        ELSE IF t[1] /= p.name THEN Fail(c, NameError(t[1], p.name))
        ELSE IF t[2] /= p.state THEN Fail(c, StateError(t[2], p.state))
        ELSE Ret([c.pools EXCEPT ![Len(c.pools)] =
                      [@ EXCEPT !.read = Atoi(t[3]), !.write = Atoi(t[4]),
                                !.checksum = Atoi(t[5])]],
                 c.heap, c.parseState + 1, NoErr, <<>>, 0)

\* a Vdev case that appends the group only for a line with a group keyword
caseVdevKeywordOnly(c, l) ==
    LET p == c.pools[Len(c.pools)]
        a == AppendVdev(c.heap, p.vdevs)
        ps == SetP(c, "vdevs", a.slice)
        t == l.toks
        SetV(v) == [a.heap EXCEPT ![a.slice.arr][a.slice.len] = v]
        c1 == [c EXCEPT !.pools = ps, !.heap = a.heap]
    IN  CASE Contains(l, "mirror-") \/ Contains(l, "raidz") ->
                IF ~Sscanf(t, RowFmt) THEN Fail(c1, ParseError(l))
                ELSE Ret(ps,
                         SetV([EmptyVdev EXCEPT !.typev = vdevTypeRaidz,
                                  !.name = t[1], !.state = t[2],
                                  !.read = Atoi(t[3]), !.write = Atoi(t[4]),
                                  !.checksum = Atoi(t[5])]),
                         c.parseState + 1, NoErr, <<>>, 0)
          [] Contains(l, "spares") ->
                IF ~Sscanf(t, <<"%s">>) THEN Fail(c1, ParseError(l))
                ELSE Ret(ps,
                         SetV([EmptyVdev EXCEPT !.typev = vdevTypeSpare,
                                                !.name = t[1]]),
                         c.parseState + 1, NoErr, <<>>, 0)
          [] OTHER ->
                Ret(c.pools, c.heap, c.parseState + 1, NoErr, <<>>, 0)

\* v := &p.vdevs[len(p.vdevs)-1], after the append
caseVdev(c, l) ==
    LET p == c.pools[Len(c.pools)]
        a == AppendVdev(c.heap, p.vdevs)
        ps == SetP(c, "vdevs", a.slice)
        t == l.toks
        SetV(v) == [a.heap EXCEPT ![a.slice.arr][a.slice.len] = v]
        c1 == [c EXCEPT !.pools = ps, !.heap = a.heap]
    IN  CASE Contains(l, "mirror-") \/ Contains(l, "raidz") ->
                IF ~Sscanf(t, RowFmt) THEN Fail(c1, ParseError(l))
                ELSE Ret(ps,
                         SetV([EmptyVdev EXCEPT !.typev = vdevTypeRaidz,
                                  !.name = t[1], !.state = t[2],
                                  !.read = Atoi(t[3]), !.write = Atoi(t[4]),
                                  !.checksum = Atoi(t[5])]),
                         c.parseState + 1, NoErr, <<>>, 0)
          [] Contains(l, "spares") ->
                IF ~Sscanf(t, <<"%s">>) THEN Fail(c1, ParseError(l))
                ELSE Ret(ps,
                         SetV([EmptyVdev EXCEPT !.typev = vdevTypeSpare,
                                                !.name = t[1]]),
                         c.parseState + 1, NoErr, <<>>, 0)
          [] OTHER ->
                Ret(ps, a.heap, c.parseState + 1, NoErr, <<>>, 0)

\* the disk of a row, by the kind of the group v it is read under
ScanDisk(typev, ref, l) ==
    LET t == l.toks
        m == diskMessageRe(l)
        d0 == [EmptyDisk EXCEPT !.vdev = ref]
        d1 == CASE typev = vdevTypeRaidz ->
                      [d0 EXCEPT !.name = t[1], !.state = t[2],
                                 !.read = Atoi(t[3]), !.write = Atoi(t[4]),
                                 !.checksum = Atoi(t[5])]
                 [] typev = vdevTypeSpare ->
                      [d0 EXCEPT !.name = t[1], !.state = t[2]]
                 [] OTHER -> d0
    IN  IF Len(m) > 0 THEN [d1 EXCEPT !.message = m[1]] ELSE d1

\* whether the Sscanf of a disk row succeeds under a group of kind typev
ScanDiskOK(typev, l) ==
    CASE typev = vdevTypeRaidz -> Sscanf(l.toks, RowFmt)
      [] typev = vdevTypeSpare -> Sscanf(l.toks, <<"%s", "%s">>)
      [] OTHER -> TRUE

\* a Disk case for which a line that is neither blank nor a disk row is an
\* error
caseDiskStrict(c, l) ==
    IF ~diskRe(l)
    THEN IF Len(TrimSpace(l)) = 0
         THEN Ret(c.pools, c.heap, zpoolParseErrors, NoErr, <<>>, 0)
         ELSE Fail(c, ParseError(l))
    ELSE LET p == c.pools[Len(c.pools)]
             ref == [arr |-> p.vdevs.arr, idx |-> p.vdevs.len]
             v == Deref(c.heap, ref)
         IN  IF ~ScanDiskOK(v.typev, l) THEN Fail(c, ParseError(l))
             ELSE Ret(c.pools,
                      [c.heap EXCEPT ![ref.arr][ref.idx].disks =
                           Append(@, ScanDisk(v.typev, ref, l))],
                      c.parseState, NoErr, <<>>, 0)

\* a Disk case whose disks all point back at the first group of the pool
caseDiskFirstGroup(c, l) ==
    IF ~diskRe(l)
    THEN IF Len(TrimSpace(l)) = 0
         THEN Ret(c.pools, c.heap, zpoolParseErrors, NoErr, <<>>, 0)
         ELSE caseVdev([c EXCEPT !.parseState = zpoolParseVdev], l)
    ELSE LET p == c.pools[Len(c.pools)]
             ref == [arr |-> p.vdevs.arr, idx |-> p.vdevs.len]
             first == [arr |-> p.vdevs.arr, idx |-> 1]
             v == Deref(c.heap, ref)
         IN  IF ~ScanDiskOK(v.typev, l) THEN Fail(c, ParseError(l))
             ELSE Ret(c.pools,
                      [c.heap EXCEPT ![ref.arr][ref.idx].disks =
                           Append(@, ScanDisk(v.typev, first, l))],
                      c.parseState, NoErr, <<>>, 0)

caseDisk(c, l) ==
    IF ~diskRe(l)
    THEN IF Len(TrimSpace(l)) = 0
         THEN Ret(c.pools, c.heap, zpoolParseErrors, NoErr, <<>>, 0)
         ELSE caseVdev([c EXCEPT !.parseState = zpoolParseVdev], l)
    ELSE LET p == c.pools[Len(c.pools)]
             ref == [arr |-> p.vdevs.arr, idx |-> p.vdevs.len]
             v == Deref(c.heap, ref)
         IN  IF ~ScanDiskOK(v.typev, l) THEN Fail(c, ParseError(l))
             ELSE Ret(c.pools,
                      [c.heap EXCEPT ![ref.arr][ref.idx].disks =
                           Append(@, ScanDisk(v.typev, ref, l))],
                      c.parseState, NoErr, <<>>, 0)

caseErrors(c, l) ==
    LET p == c.pools[Len(c.pools)]
    IN  IF Len(TrimSpace(l)) = 0
        THEN Ret(c.pools, c.heap, zpoolParseStart, NoErr, <<>>, 0)
        ELSE IF p.errors = <<>>
        THEN Ret(SetP(c, "errors", LineText(l)), c.heap, c.parseState, NoErr,
                 <<>>, 0)
        ELSE Ret(SetP(c, "errors", <<NL>> \o LineText(l)), c.heap,
                 c.parseState, NoErr, <<>>, 0)

parsePoolState(c, l) ==
    CASE c.parseState = zpoolParseStart  -> caseStart(c, l)
      [] c.parseState = zpoolParseStatus -> caseStatus(c, l)
      [] c.parseState = zpoolParseScan   -> caseScan(c, l)
      [] c.parseState = zpoolParsePool   -> casePool(c, l)
      [] c.parseState = zpoolParseVdev   -> caseVdev(c, l)
      [] c.parseState = zpoolParseDisk   -> caseDisk(c, l)
      [] c.parseState = zpoolParseErrors -> caseErrors(c, l)

(***************************************************************************)
(* Health and formatting (zpool.go), and the report of checkPoolStatus.    *)
(***************************************************************************)
Sentinel == <<"errors:", "No", "known", "data", "errors">>

\* a disk held to the rule of spares whatever group owns it
DiskHealthyAsSpare(h, d) == d.state = "AVAIL"

\* func (d vdevDisk) Healthy() bool
DiskHealthy(h, d) ==
    IF Deref(h, d.vdev).typev = vdevTypeSpare
    THEN d.state = "AVAIL"
    ELSE d.state = "ONLINE" /\ d.read = 0 /\ d.write = 0 /\ d.checksum = 0
         /\ d.message = <<>>

\* a spares group that is healthy whatever its disks
VdevHealthySpareAlways(h, v) ==
    IF v.typev = vdevTypeSpare THEN TRUE
    ELSE /\ v.state = "ONLINE" /\ v.read = 0 /\ v.write = 0 /\ v.checksum = 0
         /\ \A i \in 1..Len(v.disks) : DiskHealthy(h, v.disks[i])

\* func (v vdev) Healthy() bool
VdevHealthy(h, v) ==
    /\ IF v.typev = vdevTypeSpare THEN TRUE
       ELSE v.state = "ONLINE" /\ v.read = 0 /\ v.write = 0 /\ v.checksum = 0
    /\ \A i \in 1..Len(v.disks) : DiskHealthy(h, v.disks[i])

\* func (p pool) Health() bool
PoolHealth(h, p) ==
    /\ p.state = "ONLINE" /\ p.read = 0 /\ p.write = 0 /\ p.checksum = 0
    /\ p.errors = Sentinel
    /\ \A i \in 1..p.vdevs.len : VdevHealthy(h, Elems(h, p.vdevs)[i])

Counters(x) == <<"(", Itoa(x.read), "|", Itoa(x.write), "|", Itoa(x.checksum)>>

\* func (p pool) String() string
PoolString(p) ==
    <<"pool", p.name, "-", p.state>> \o Counters(p) \o <<"):">> \o p.errors

\* func (v vdev) String() string
VdevString(v) == <<"vdev", v.name, "-", v.state>> \o Counters(v) \o <<")">>

\* every disk formatted with its counters
DiskStringCounters(h, d) ==
    <<"disk", d.name, "-", d.state>> \o Counters(d) \o <<"):">> \o d.message

\* func (d vdevDisk) String() string
DiskString(h, d) ==
    IF Deref(h, d.vdev).typev = vdevTypeSpare
    THEN <<"disk", d.name, "-", d.state, ":">> \o d.message
    ELSE <<"disk", d.name, "-", d.state>> \o Counters(d) \o <<"):">>
         \o d.message

RECURSIVE Flatten(_)
Flatten(ss) == IF ss = <<>> THEN <<>> ELSE Head(ss) \o Flatten(Tail(ss))

\* strings.Join(texts, "\n")
RECURSIVE JoinNL(_)
JoinNL(ts) ==
    IF ts = <<>> THEN <<>>
    ELSE IF Len(ts) = 1 THEN ts[1]
    ELSE ts[1] \o <<NL>> \o JoinNL(Tail(ts))

\* one element of errs: the string, and the record it was formatted from
Item(kind, pi, vi, di, text) ==
    [kind |-> kind, p |-> pi, v |-> vi, d |-> di, text |-> text]

\* a report that lists every disk of the group, healthy or not
DiskErrsUnfiltered(h, pi, vi, v) ==
    [di \in 1..Len(v.disks) |->
        Item("disk", pi, vi, di, DiskString(h, v.disks[di]))]

\* main.go 115-119: the lines of the unhealthy disks of group vi of pool pi
DiskErrs(h, pi, vi, v) ==
    LET all == [di \in 1..Len(v.disks) |->
                   Item("disk", pi, vi, di, DiskString(h, v.disks[di]))]
        Bad(it) == ~DiskHealthy(h, v.disks[it.d])
    IN  SelectSeq(all, Bad)

\* a pass that reports the disks of a group but never the group
VdevErrsDisksOnly(h, pi, vi, v) == DiskErrs(h, pi, vi, v)

\* main.go 110-120: one pass of the loop over p.vdevs
VdevErrs(h, pi, vi, v) ==
    (IF ~VdevHealthy(h, v) THEN <<Item("vdev", pi, vi, 0, VdevString(v))>>
     ELSE <<>>)
    \o DiskErrs(h, pi, vi, v)

\* main.go 122-124: append(errs, "scrub of %s ...", p.name, p.scanStatus)
ScrubErrs(pi, p) ==
    IF /\ ContainsPhrase(p.scanStatus, <<"scrub", "repaired">>)
       /\ ~ContainsPhrase(p.scanStatus, <<"with", "0", "errors">>)
    THEN <<Item("scrub", pi, 0, 0,
                <<"scrub", "of", "%s", "encountered", "errors:", "%s">>),
           Item("scrub", pi, 0, 0, <<p.name>>),
           Item("scrub", pi, 0, 0, p.scanStatus)>>
    ELSE <<>>

\* main.go 107-125: one pass of the loop over pools
PoolErrs(h, pi, p) ==
    (IF ~PoolHealth(h, p)
     THEN <<Item("pool", pi, 0, 0, PoolString(p))>>
          \o Flatten([vi \in 1..p.vdevs.len |->
                         VdevErrs(h, pi, vi, Elems(h, p.vdevs)[vi])])
     ELSE <<>>)
    \o ScrubErrs(pi, p)

\* main.go 106-125: errs after the loop
HealthErrs(h, ps) == Flatten([pi \in 1..Len(ps) |-> PoolErrs(h, pi, ps[pi])])

\* errors.New(strings.Join(errs, "\n"))
HealthError(items) ==
    [kind |-> "health", msg |-> JoinNL([i \in 1..Len(items) |-> items[i].text])]

\* what an executer that fails returns: the error of c.Wait(), or the one
\* made of what the command wrote to stderr
ExecFailures == {"exit status 1", "wrote the following to stderr"}
ExecError(msg) == [kind |-> "exec", msg |-> msg]

\* one call e(cmd, args...) and the error it returned
Call(cmd, err) == [cmd |-> cmd, err |-> err]

(***************************************************************************)
(* The documents the executer may return for "zpool status": a template,   *)
(* with at most MaxEdits of its lines replaced by any line of Lines, cut   *)
(* off after any line.  The document is revealed as the scanner reads it.  *)
(***************************************************************************)
LPoolTank == Line(TRUE, <<"pool:", "tank">>)
LPoolBoot == Line(TRUE, <<"pool:", "boot">>)
LStateOnline == Line(TRUE, <<"state:", "ONLINE">>)
LStateDegraded == Line(TRUE, <<"state:", "DEGRADED">>)
LStatus == Line(TRUE, <<"status:", "device", "not", "opened.">>)
LStatusMore == Line(TRUE, <<"Sufficient", "replicas", "exist">>)
LAction == Line(TRUE, <<"action:", "Attach", "the", "device">>)
LScanClean == Line(TRUE, <<"scan:", "scrub", "repaired", "0B", "in",
                           "00:10:00", "with", "0", "errors">>)
LScanDirty == Line(TRUE, <<"scan:", "scrub", "repaired", "0B", "in",
                           "00:10:00", "with", "2", "errors">>)
LConfig == Line(FALSE, <<"config:">>)
LBlank == Line(FALSE, <<>>)
LHeader == Line(TRUE, <<"NAME", "STATE", "READ", "WRITE", "CKSUM">>)
LRowTank == Line(TRUE, <<"tank", "ONLINE", "0", "0", "0">>)
LRowTankDegraded == Line(TRUE, <<"tank", "DEGRADED", "0", "0", "0">>)
LRowTankCksum == Line(TRUE, <<"tank", "ONLINE", "0", "0", "1">>)
LRowTankShort == Line(TRUE, <<"tank", "DEGRADED">>)
LRowBoot == Line(TRUE, <<"boot", "ONLINE", "0", "0", "0">>)
LRaidz == Line(TRUE, <<"raidz2-0", "ONLINE", "0", "0", "0">>)
LRaidzDegraded == Line(TRUE, <<"raidz2-0", "DEGRADED", "0", "0", "0">>)
LRaidzShort == Line(TRUE, <<"raidz2-0", "DEGRADED">>)
LMirror0 == Line(TRUE, <<"mirror-0", "ONLINE", "0", "0", "0">>)
LMirror1 == Line(TRUE, <<"mirror-1", "ONLINE", "0", "0", "0">>)
LSpares == Line(TRUE, <<"spares">>)
LDiskA == Line(TRUE, <<UuidA, "ONLINE", "0", "0", "0">>)
LDiskB == Line(TRUE, <<UuidB, "ONLINE", "0", "0", "0">>)
LDiskC == Line(TRUE, <<UuidC, "ONLINE", "0", "0", "0">>)
LDiskOffline == Line(TRUE, <<UuidX, "OFFLINE", "0", "0", "0">>)
LDiskCksum == Line(TRUE, <<UuidX, "ONLINE", "0", "0", "2">>)
LDiskGone == Line(TRUE, <<BigNum, "UNAVAIL", "0", "0", "0", "was",
                          "/dev/gptid/4167d912">>)
LDiskNvme == Line(TRUE, <<"nvme0n1", "ONLINE", "0", "0", "0">>)
LSpareAvail == Line(TRUE, <<UuidS, "AVAIL">>)
LSpareGone == Line(TRUE, <<UuidX, "UNAVAIL">>)
LErrorsNone == Line(FALSE, Sentinel)
LErrorsSome == Line(FALSE, <<"errors:", "2", "data", "errors">>)

Lines == {LPoolTank, LPoolBoot, LStateOnline, LStateDegraded, LStatus,
          LStatusMore, LAction, LScanClean, LScanDirty, LConfig, LBlank,
          LHeader, LRowTank, LRowTankDegraded, LRowTankCksum, LRowTankShort,
          LRowBoot, LRaidz, LRaidzDegraded, LRaidzShort, LMirror0, LMirror1,
          LSpares,
          LDiskA, LDiskB, LDiskC, LDiskOffline, LDiskCksum, LDiskGone,
          LDiskNvme, LSpareAvail, LSpareGone, LErrorsNone, LErrorsSome}

\* two healthy pools of standard groups: tank (raidz2 of two, mirror of
\* one) and boot (mirror of one)
TemplateHealthy ==
    <<LPoolTank, LStateOnline, LScanClean, LConfig, LBlank, LHeader,
      LRowTank, LRaidz, LDiskA, LDiskB, LMirror1, LDiskC, LBlank,
      LErrorsNone, LBlank,
      LPoolBoot, LStateOnline, LScanClean, LConfig, LBlank, LHeader,
      LRowBoot, LMirror0, LDiskNvme, LBlank, LErrorsNone>>

\* one healthy pool with a hot spare
TemplateSpares ==
    <<LPoolTank, LStateOnline, LScanClean, LConfig, LBlank, LHeader,
      LRowTank, LRaidz, LDiskA, LSpares, LSpareAvail, LBlank, LErrorsNone,
      LBlank>>

\* one degraded pool with a disconnected disk, status and action text
TemplateDegraded ==
    <<LPoolTank, LStateDegraded, LStatus, LStatusMore, LAction, LScanClean,
      LConfig, LBlank, LHeader, LRowTankDegraded, LRaidzDegraded, LDiskA,
      LDiskGone, LBlank, LErrorsNone, LBlank>>

Templates == <<TemplateHealthy, TemplateSpares, TemplateDegraded>>

\* a line that may stand in a skipped place instead of the template's
SkipAlt == LPoolTank

\* the lines that may stand at place i of the document, with the edits used
Choices(doc, i, e) ==
    {[l |-> doc[i], e |-> e]}
    \cup (IF e < MaxEdits
          THEN {[l |-> x, e |-> e + 1] : x \in Lines \ {doc[i]}}
          ELSE {})

\* the lines that may stand at places i+1..i+k, which the scanner skips
SkipChoices(doc, i, k, e) ==
    LET base == [j \in 1..k |-> doc[i + j]]
    IN  {[ls |-> base, e |-> e]}
        \cup (IF e < MaxEdits
              THEN {[ls |-> [base EXCEPT ![j] = SkipAlt], e |-> e + 1] :
                       j \in {m \in 1..k : base[m] /= SkipAlt}}
              ELSE {})

Min(a, b) == IF a < b THEN a ELSE b

(***************************************************************************)
(* checkSmartStatus.  A self-test log is the sequence of its table rows:   *)
(* the outcome text, the remaining-percentage column and the power-on      *)
(* hours, most recent test first.                                          *)
(***************************************************************************)
MaxInt32 == 2147483647
\* smartThreshold = 0.05 is one in ThresholdDen
ThresholdDen == 20

Disks == <<"sda", "sdb", "sdc", "sdd", "sde", "sdf">>

Completed == "Completed without error"
ReadFailure == "Completed: read failure"
Aborted == "Aborted by host"

Row(desc, pct, hours) == [desc |-> desc, pct |-> pct, hours |-> hours]

\* smartRe.FindAllStringSubmatch(status, -1): the rows that end in 00% and
\* a number, each as [desc |-> match[1], hours |-> match[2]]
smartRe(log) == SelectSeq(log, LAMBDA r : r.pct = "00%")

\* a loop in which every row, not only the first, moves oldest and youngest
RECURSIVE ScanRowsEveryRow(_, _, _)
ScanRowsEveryRow(matches, j, a) ==
    IF j > Len(matches) THEN a
    ELSE LET m == matches[j]
             failed == m.desc /= Completed
             a1 == IF failed
                   THEN [a EXCEPT !.latestFail = m.desc, !.fails = a.fails + 1]
                   ELSE a
         IN  IF m.hours \notin IntToks
             THEN [a1 EXCEPT !.err = [kind |-> "atoi", text |-> m.hours]]
             ELSE LET age == Atoi(m.hours)
                      a2 == IF age > a1.oldest
                            THEN [a1 EXCEPT !.oldest = age] ELSE a1
                      a3 == IF age < a2.youngest
                            THEN [a2 EXCEPT !.youngest = age] ELSE a2
                  IN  ScanRowsEveryRow(matches, j + 1, a3)

\* main.go 155-173: the loop over matches, from row j on
RECURSIVE ScanRows(_, _, _)
ScanRows(matches, j, a) ==
    IF j > Len(matches) THEN a
    ELSE LET m == matches[j]
             failed == m.desc /= Completed
             a1 == IF failed
                   THEN [a EXCEPT !.latestFail = m.desc, !.fails = a.fails + 1]
                   ELSE a
         IN  IF m.hours \notin IntToks
             THEN [a1 EXCEPT !.err = [kind |-> "atoi", text |-> m.hours]]
             ELSE LET age == Atoi(m.hours)
                      a2 == IF j = 1 /\ age > a1.oldest
                            THEN [a1 EXCEPT !.oldest = age] ELSE a1
                      a3 == IF j = 1 /\ age < a2.youngest
                            THEN [a2 EXCEPT !.youngest = age] ELSE a2
                  IN  ScanRows(matches, j + 1, a3)

\* a threshold that must be exceeded, not merely met
BreachStrict(fails, n) == n > 0 /\ ThresholdDen * fails > n

\* a threshold of one in twenty-one
BreachLoose(fails, n) == n > 0 /\ ThresholdDen * fails + 1 >= n

\* a threshold that a log without rows breaches
BreachNoRows(fails, n) == n = 0 \/ ThresholdDen * fails >= n

\* float32(fails)/float32(n) >= smartThreshold; 0/0 is NaN, which is not
Breach(fails, n) == n > 0 /\ ThresholdDen * fails >= n

\* main.go 152-178: one disk's log, given oldest and youngest so far
ScanLog(disk, log, old, young) ==
    LET matches == smartRe(log)
        a == ScanRows(matches, 1,
                      [fails |-> 0, latestFail |-> "", oldest |-> old,
                       youngest |-> young, err |-> NoErr])
    IN  IF a.err /= NoErr THEN a
        ELSE IF Breach(a.fails, Len(matches))
        THEN [a EXCEPT !.err = [kind |-> "smart", disk |-> disk,
                                desc |-> a.latestFail]]
        ELSE a

LogEmpty == <<>>
LogOne == <<Row(Completed, "00%", "100")>>
LogTwo == <<Row(Completed, "00%", "300"), Row(Completed, "00%", "50")>>
LogRunning == <<Row("Self-test routine in progress", "90%", "50"),
                Row(Completed, "00%", "200")>>
LogPass == [i \in 1..21 |->
               Row(IF i = 2 THEN ReadFailure ELSE Completed, "00%", "150")]
LogBreach == [i \in 1..20 |->
                 Row(IF i = 2 THEN ReadFailure ELSE Completed, "00%", "150")]
LogTwoFails == <<Row(Completed, "00%", "100"), Row(ReadFailure, "00%", "100"),
                 Row(Aborted, "00%", "50")>>
LogHuge == <<Row(Completed, "00%", "100"), Row(Completed, "00%", BigNum)>>

SmartLogs == {LogEmpty, LogOne, LogTwo, LogRunning, LogPass, LogBreach,
              LogTwoFails, LogHuge}

(***************************************************************************)
(* The state machine.  pc: "zpool" (main is about to call                  *)
(* checkPoolStatus), "parse" (inside the loop of parsePools), "eval"       *)
(* (parsePools has returned the pools), "poolDone" (checkPoolStatus has    *)
(* returned), "smart" (inside the loop of checkSmartStatus), "smartDone"   *)
(* (it has returned), "usage" (main calls diskUsage), "usageDone" (it has   *)
(* returned), "panic" (the runtime has stopped the program), "done".       *)
(***************************************************************************)
NoLine == Line(FALSE, <<"(none)">>)

\* the clock before main has read it
NoClock == [weekday |-> "(unread)", hour |-> 0, minute |-> 0]

\* the locals of checkPoolStatus and parsePools before the call
PoolLocalsInit ==
    /\ tmpl = 0 /\ pos = 0 /\ edits = 0 /\ eof = FALSE
    /\ line = NoLine /\ skipped = <<>> /\ scanSeen = <<>>
    /\ pools = <<>> /\ heap = <<>> /\ parseState = zpoolParseStart
    /\ diag = <<>>

Init ==
    /\ pc = "zpool"
    /\ PoolLocalsInit
    /\ perr = NoErr
    /\ calls = <<>> /\ logs = <<>> /\ oldest = 0 /\ youngest = 0
    /\ serr = NoErr
    /\ executed = <<>>
    /\ notified = <<>>
    /\ now = 0 /\ cfgFile = <<>> /\ sent = <<>>
    /\ usage = <<>> /\ uerr = NoErr /\ clock = NoClock

smartVars == <<calls, logs, oldest, youngest, serr>>
notifyVars == <<now, cfgFile, sent>>
usageVars == <<usage, uerr, clock>>
parseVars == <<tmpl, pos, edits, eof, line, skipped, scanSeen, pools, heap,
               parseState>>

\* a checkPoolStatus that wraps the executer's error into a parse error
ExecZpoolWrapped ==
    /\ pc = "zpool"
    /\ \/ \E msg \in ExecFailures :
            /\ perr' = ParseError(NoLine)
            /\ executed' = Append(executed, Call(<<"/sbin/zpool", "status">>,
                                                 ExecError(msg)))
            /\ pc' = "poolDone"
            /\ tmpl' = tmpl
       \/ /\ tmpl' \in 1..Len(Templates)
          /\ executed' = Append(executed, Call(<<"/sbin/zpool", "status">>,
                                               NoErr))
          /\ pc' = "parse"
          /\ perr' = perr
    /\ UNCHANGED <<pos, edits, eof, line, skipped, scanSeen, pools, heap,
                   parseState, diag, notified>>
    /\ UNCHANGED smartVars
    /\ UNCHANGED notifyVars
    /\ UNCHANGED usageVars

\* main.go 96-99: e("/sbin/zpool", "status") fails, or returns a document
ExecZpool ==
    /\ pc = "zpool"
    /\ \/ \E msg \in ExecFailures :
            /\ perr' = ExecError(msg)
            /\ executed' = Append(executed, Call(<<"/sbin/zpool", "status">>,
                                                 ExecError(msg)))
            /\ pc' = "poolDone"
            /\ tmpl' = tmpl
       \/ /\ tmpl' \in 1..Len(Templates)
          /\ executed' = Append(executed, Call(<<"/sbin/zpool", "status">>,
                                               NoErr))
          /\ pc' = "parse"
          /\ perr' = perr
    /\ UNCHANGED <<pos, edits, eof, line, skipped, scanSeen, pools, heap,
                   parseState, diag, notified>>
    /\ UNCHANGED smartVars
    /\ UNCHANGED notifyVars
    /\ UNCHANGED usageVars

\* a parsePools that returns the pools parsed so far along with the error
ParseLineKeepsPools ==
    /\ pc = "parse" /\ ~eof
    /\ pos < Len(Templates[tmpl])
    /\ \E ch \in Choices(Templates[tmpl], pos + 1, edits) :
         LET doc == Templates[tmpl]
             r == parsePoolState([pools |-> pools, heap |-> heap,
                                  parseState |-> parseState], ch.l)
         IN  /\ line' = ch.l
             /\ parseState' = r.parseState
             /\ IF r.err /= NoErr
                THEN /\ pools' = pools /\ heap' = heap
                     /\ scanSeen' = scanSeen
                     /\ skipped' = <<>>
                     /\ pos' = pos + 1 /\ edits' = ch.e /\ eof' = eof
                     /\ perr' = r.err
                     /\ pc' = "poolDone"
                ELSE /\ pools' = r.pools \o r.newPool
                     /\ heap' = r.heap
                     /\ scanSeen' =
                          IF r.newPool /= <<>> THEN Append(scanSeen, <<>>)
                          ELSE IF r.skip > 0
                          THEN [scanSeen EXCEPT ![Len(scanSeen)] = ch.l.toks]
                          ELSE scanSeen
                     /\ \E k \in 0..Min(r.skip, Len(doc) - (pos + 1)) :
                        \E sk \in SkipChoices(doc, pos + 1, k, ch.e) :
                          /\ skipped' = sk.ls
                          /\ edits' = sk.e
                          /\ pos' = pos + 1 + k
                          /\ eof' = (k < r.skip)
                     /\ perr' = perr
                     /\ pc' = pc
    /\ UNCHANGED <<tmpl, diag, notified, executed>>
    /\ UNCHANGED smartVars
    /\ UNCHANGED notifyVars
    /\ UNCHANGED usageVars

\* zpool.go 119-129: scanner.Scan() yields a line and parsePoolState handles
\* it; on an error parsePools returns nil and checkPoolStatus returns the
\* error (main.go 102-104)
ParseLine ==
    /\ pc = "parse" /\ ~eof
    /\ pos < Len(Templates[tmpl])
    /\ \E ch \in Choices(Templates[tmpl], pos + 1, edits) :
         LET doc == Templates[tmpl]
             r == parsePoolState([pools |-> pools, heap |-> heap,
                                  parseState |-> parseState], ch.l)
         IN  /\ line' = ch.l
             /\ parseState' = r.parseState
             /\ IF r.err /= NoErr
                THEN /\ pools' = <<>> /\ heap' = <<>> /\ scanSeen' = <<>>
                     /\ skipped' = <<>>
                     /\ pos' = pos + 1 /\ edits' = ch.e /\ eof' = eof
                     /\ perr' = r.err
                     /\ pc' = "poolDone"
                ELSE /\ pools' = r.pools \o r.newPool
                     /\ heap' = r.heap
                     /\ scanSeen' =
                          IF r.newPool /= <<>> THEN Append(scanSeen, <<>>)
                          ELSE IF r.skip > 0
                          THEN [scanSeen EXCEPT ![Len(scanSeen)] = ch.l.toks]
                          ELSE scanSeen
                     /\ \E k \in 0..Min(r.skip, Len(doc) - (pos + 1)) :
                        \E sk \in SkipChoices(doc, pos + 1, k, ch.e) :
                          /\ skipped' = sk.ls
                          /\ edits' = sk.e
                          /\ pos' = pos + 1 + k
                          /\ eof' = (k < r.skip)
                     /\ perr' = perr
                     /\ pc' = pc
    /\ UNCHANGED <<tmpl, diag, notified, executed>>
    /\ UNCHANGED smartVars
    /\ UNCHANGED notifyVars
    /\ UNCHANGED usageVars

\* a parsePools that takes the end of the input for an error unless the last
\* pool is complete
EndOfInputStrict ==
    /\ pc = "parse"
    /\ eof' = TRUE
    /\ IF parseState \in {zpoolParseStart, zpoolParseErrors}
       THEN pc' = "eval" /\ UNCHANGED <<pools, heap, perr>>
       ELSE /\ pc' = "poolDone"
            /\ pools' = <<>> /\ heap' = <<>>
            /\ perr' = ParseError(NoLine)
    /\ UNCHANGED <<tmpl, pos, edits, line, skipped, scanSeen, parseState,
                   diag, notified, executed>>
    /\ UNCHANGED smartVars
    /\ UNCHANGED notifyVars
    /\ UNCHANGED usageVars

\* zpool.go 119, 131: scanner.Scan() reports the end of the document and
\* parsePools returns the pools
EndOfInput ==
    /\ pc = "parse"
    /\ eof' = TRUE
    /\ pc' = "eval"
    /\ UNCHANGED <<tmpl, pos, edits, line, skipped, scanSeen, pools, heap,
                   parseState, diag, perr, notified, executed>>
    /\ UNCHANGED smartVars
    /\ UNCHANGED notifyVars
    /\ UNCHANGED usageVars

\* main.go 106-130: the report on the parsed pools
checkPoolStatus ==
    /\ pc = "eval"
    /\ diag' = HealthErrs(heap, pools)
    /\ perr' = IF Len(diag') > 0 THEN HealthError(diag') ELSE NoErr
    /\ pc' = "poolDone"
    /\ UNCHANGED parseVars
    /\ UNCHANGED <<notified, executed>>
    /\ UNCHANGED smartVars
    /\ UNCHANGED notifyVars
    /\ UNCHANGED usageVars

(***************************************************************************)
(* notify (main.go 220-254).  The file is opened without truncation, read  *)
(* to its end and then written at the offset the read left, which is the   *)
(* end: each write adds one JSON object after those already there.         *)
(* json.Unmarshal accepts the content only when it is exactly one object;  *)
(* otherwise cfg.LastUpdated stays the zero time, which is no less than 23 *)
(* hours before any present time.                                          *)
(***************************************************************************)
ThrottleHours == 23

\* json.Unmarshal(data, &cfg) succeeds
UnmarshalOK(f) == Len(f) = 1

\* cfg.LastUpdated.Add(time.Hour * 23).After(time.Now())
Throttled(f, t) == UnmarshalOK(f) /\ f[1] + ThrottleHours > t

\* notify(app, title, msg) at time t on file f: the file afterwards and the
\* calls of app.SendMessage made
notify(f, t, title) ==
    IF Throttled(f, t)
    THEN [file |-> f, sent |-> <<>>]
    ELSE [file |-> Append(f, t), sent |-> <<[at |-> t, title |-> title]>>]

\* main.go 39-45: main takes the result of checkPoolStatus; its locals die
MainPool ==
    /\ pc = "poolDone"
    /\ IF perr /= NoErr
       THEN /\ notified' = Append(notified, <<"Health check failed!", perr>>)
            /\ cfgFile' = notify(cfgFile, now, "Health check failed!").file
            /\ sent' = sent \o notify(cfgFile, now, "Health check failed!").sent
            /\ pc' = "done"
            /\ UNCHANGED <<youngest>>
       ELSE /\ notified' = notified
            /\ UNCHANGED <<cfgFile, sent>>
            /\ pc' = "smart"
            /\ youngest' = MaxInt32
    /\ now' = now
    /\ UNCHANGED usageVars
    /\ tmpl' = 0 /\ pos' = 0 /\ edits' = 0 /\ eof' = FALSE
    /\ line' = NoLine /\ skipped' = <<>> /\ scanSeen' = <<>>
    /\ pools' = <<>> /\ heap' = <<>> /\ parseState' = zpoolParseStart
    /\ diag' = <<>>
    /\ UNCHANGED <<perr, calls, logs, oldest, serr, executed>>

\* main.go 147: the command for one disk
Smartctl(disk) == <<"/sbin/smartctl", "-l", "selftest", "/dev/", disk>>

\* main.go 145-179: one pass of the loop over disks, with the executer's
\* answer; after the last disk, or on an error, checkSmartStatus returns
SmartDisk ==
    /\ pc = "smart"
    /\ Len(calls) < Len(Disks)
    /\ LET disk == Disks[Len(calls) + 1]
       IN  /\ calls' = Append(calls, disk)
           /\ \/ \E msg \in ExecFailures :
                   /\ serr' = ExecError(msg)
                   /\ executed' = Append(executed,
                                         Call(Smartctl(disk), ExecError(msg)))
                   /\ pc' = "smartDone"
                   /\ UNCHANGED <<logs, oldest, youngest>>
              \/ \E log \in SmartLogs :
                   LET a == ScanLog(disk, log, oldest, youngest)
                   IN  /\ logs' = Append(logs, log)
                       /\ executed' = Append(executed,
                                             Call(Smartctl(disk), NoErr))
                       /\ oldest' = a.oldest
                       /\ youngest' = a.youngest
                       /\ serr' = a.err
                       /\ pc' = IF a.err /= NoErr \/ Len(calls') = Len(Disks)
                                THEN "smartDone" ELSE "smart"
    /\ UNCHANGED parseVars
    /\ UNCHANGED <<diag, perr, notified>>
    /\ UNCHANGED notifyVars
    /\ UNCHANGED usageVars

\* main.go 46-51: main takes the result of checkSmartStatus
MainSmart ==
    /\ pc = "smartDone"
    /\ IF serr /= NoErr
       THEN /\ notified' = Append(notified, <<"Health check failed!",
                                               [kind |-> "text"]>>)
            /\ cfgFile' = notify(cfgFile, now, "Health check failed!").file
            /\ sent' = sent \o notify(cfgFile, now, "Health check failed!").sent
            /\ pc' = "done"
       ELSE /\ notified' = notified
            /\ UNCHANGED <<cfgFile, sent>>
            /\ pc' = "usage"
    /\ now' = now
    /\ UNCHANGED usageVars
    /\ UNCHANGED parseVars
    /\ UNCHANGED <<diag, perr, executed>>
    /\ UNCHANGED smartVars

(***************************************************************************)
(* diskUsage (main.go 78-93).  The output of "zfs list" is a sequence of   *)
(* rows NAME USED AVAIL; the pattern built from a pool's name finds the    *)
(* first row of that name followed by two fields and keeps the second.     *)
(* FindStringSubmatch returns nil when no row fits, and matches[1] on nil  *)
(* is an index out of range: the runtime panics.                           *)
(***************************************************************************)
diskUsagePools == <<"boot-pool", "primarySafe">>

ZfsRow(name, used, avail) == <<name, used, avail>>

ListBoth == <<ZfsRow("boot-pool", "2.5G", "200G"),
              ZfsRow("primarySafe", "1T", "3T"),
              ZfsRow("primarySafe/apps", "1G", "3T")>>
ListBootOnly == <<ZfsRow("boot-pool", "2.5G", "200G")>>
ListNone == <<>>
ZfsLists == {ListBoth, ListBootOnly, ListNone}

\* re.FindStringSubmatch(diskUsage): the rows the pattern of poolName fits
FindStringSubmatch(out, poolName) ==
    {i \in 1..Len(out) : out[i][1] = poolName}

\* the leftmost match
FirstOf(S) == CHOOSE i \in S : \A j \in S : i <= j

\* main.go 86-92: the map filled pool by pool
UsageOf(out) ==
    [k \in 1..Len(diskUsagePools) |->
        <<diskUsagePools[k],
          out[FirstOf(FindStringSubmatch(out, diskUsagePools[k]))][3]>>]

\* main.go 78-93: diskUsage, with the executer's answer
diskUsage ==
    /\ pc = "usage"
    /\ \/ \E msg \in ExecFailures :
            /\ executed' = Append(executed, Call(<<"zfs", "list">>,
                                                 ExecError(msg)))
            /\ notified' = Append(notified, <<"Internal Error",
                                               ExecError(msg)>>)
            /\ cfgFile' = notify(cfgFile, now, "Internal Error").file
            /\ sent' = sent \o notify(cfgFile, now, "Internal Error").sent
            /\ uerr' = ExecError(msg)
            /\ usage' = <<>>
            /\ pc' = "usageDone"
       \/ \E out \in ZfsLists :
            /\ executed' = Append(executed, Call(<<"zfs", "list">>, NoErr))
            /\ UNCHANGED <<notified, cfgFile, sent, uerr>>
            /\ IF \E k \in 1..Len(diskUsagePools) :
                      FindStringSubmatch(out, diskUsagePools[k]) = {}
               THEN /\ usage' = <<>>
                    /\ pc' = "panic"
               ELSE /\ usage' = UsageOf(out)
                    /\ pc' = "usageDone"
    /\ UNCHANGED <<now, clock>>
    /\ UNCHANGED parseVars
    /\ UNCHANGED <<diag, perr>>
    /\ UNCHANGED smartVars

\* the times main may read
Times == {[weekday |-> "Saturday", hour |-> 8, minute |-> 29],
          [weekday |-> "Saturday", hour |-> 8, minute |-> 30],
          [weekday |-> "Saturday", hour |-> 9, minute |-> 0],
          [weekday |-> "Sunday", hour |-> 8, minute |-> 0]}

\* a shouldNotify that holds through the whole hour
shouldNotifyWholeHour(t) ==
    t.weekday = "Saturday" /\ t.hour = 8

\* main.go 74-76
shouldNotify(t) ==
    t.weekday = "Saturday" /\ t.hour = 8 /\ t.minute <= 29

\* main.go 53-67: main takes the result of diskUsage; err is nil at line 62
MainUsage ==
    /\ pc = "usageDone"
    /\ IF uerr /= NoErr
       THEN /\ notified' = Append(notified, <<"Health check failed!",
                                               [kind |-> "text"]>>)
            /\ cfgFile' = notify(cfgFile, now, "Health check failed!").file
            /\ sent' = sent \o notify(cfgFile, now, "Health check failed!").sent
            /\ clock' = clock
       ELSE /\ clock' \in Times
            /\ IF shouldNotify(clock')
               THEN /\ notified' = Append(notified,
                            <<"Heartbeat", [kind |-> "report",
                                            youngest |-> youngest,
                                            oldest |-> oldest,
                                            usage |-> usage]>>)
                    /\ cfgFile' = notify(cfgFile, now, "Heartbeat").file
                    /\ sent' = sent \o notify(cfgFile, now, "Heartbeat").sent
               ELSE UNCHANGED <<notified, cfgFile, sent>>
    /\ pc' = "done"
    /\ UNCHANGED <<now, usage, uerr>>
    /\ UNCHANGED parseVars
    /\ UNCHANGED <<diag, perr, executed>>
    /\ UNCHANGED smartVars

Next ==
    \/ ExecZpool
    \/ ParseLine
    \/ EndOfInput
    \/ checkPoolStatus
    \/ MainPool
    \/ SmartDisk
    \/ MainSmart
    \/ diskUsage
    \/ MainUsage

Spec == Init /\ [][Next]_vars

(***************************************************************************)
(* The calls of notify over the successive runs of the job, with the file  *)
(* heartbeat.json persisting between them: time passes, and a run that has *)
(* something to report calls notify at the time the clock shows.           *)
(***************************************************************************)
MaxHours == 26
MaxWrites == 3

mainVars == <<pc, tmpl, pos, edits, eof, line, skipped, scanSeen, pools, heap,
              parseState, diag, perr, calls, logs, oldest, youngest, serr,
              executed, notified, usage, uerr, clock>>

\* an hour passes
Tick ==
    /\ now < MaxHours
    /\ now' = now + 1
    /\ UNCHANGED <<cfgFile, sent>>
    /\ UNCHANGED mainVars

\* main.go 220-254: a run calls notify
NotifyCall ==
    /\ Len(cfgFile) < MaxWrites
    /\ cfgFile' = notify(cfgFile, now, "Health check failed!").file
    /\ sent' = sent \o notify(cfgFile, now, "Health check failed!").sent
    /\ now' = now
    /\ UNCHANGED mainVars

NotifyNext ==
    \/ Tick
    \/ NotifyCall

NotifySpec == Init /\ [][NotifyNext]_vars

(***************************************************************************)
(* Vocabulary of the claims: health stated on the parsed records, by the   *)
(* kind of the group that owns a disk.                                     *)
(***************************************************************************)
\* checkPoolStatus has parsed a document, reported on it and returned
Reported == pc = "poolDone" /\ tmpl /= 0 /\ perr.kind \in {"nil", "health"}

Groups(pi) == Elems(heap, pools[pi].vdevs)
PoolIdx == 1..Len(pools)
GroupIdx(pi) == 1..Len(Groups(pi))
DiskIdx(pi, vi) == 1..Len(Groups(pi)[vi].disks)
DiskAt(pi, vi, di) == Groups(pi)[vi].disks[di]

ZeroCounters(x) == x.read = 0 /\ x.write = 0 /\ x.checksum = 0
PoolFieldsOK(p) == p.state = "ONLINE" /\ ZeroCounters(p) /\ p.errors = Sentinel
GroupFieldsOK(v) == v.state = "ONLINE" /\ ZeroCounters(v)
StdDiskOK(d) == d.state = "ONLINE" /\ ZeroCounters(d) /\ d.message = <<>>
DiskOK(pi, vi, di) ==
    IF Groups(pi)[vi].typev = vdevTypeSpare
    THEN DiskAt(pi, vi, di).state = "AVAIL"
    ELSE StdDiskOK(DiskAt(pi, vi, di))
GroupOK(pi, vi) ==
    /\ Groups(pi)[vi].typev = vdevTypeSpare \/ GroupFieldsOK(Groups(pi)[vi])
    /\ \A di \in DiskIdx(pi, vi) : DiskOK(pi, vi, di)
PoolOK(pi) ==
    /\ PoolFieldsOK(pools[pi])
    /\ \A vi \in GroupIdx(pi) : GroupOK(pi, vi)

\* the summary lines, written out
PoolLine(p) ==
    <<"pool", p.name, "-", p.state, "(", Itoa(p.read), "|", Itoa(p.write),
      "|", Itoa(p.checksum), "):">> \o p.errors
GroupLine(v) ==
    <<"vdev", v.name, "-", v.state, "(", Itoa(v.read), "|", Itoa(v.write),
      "|", Itoa(v.checksum), ")">>
StdDiskLine(d) ==
    <<"disk", d.name, "-", d.state, "(", Itoa(d.read), "|", Itoa(d.write),
      "|", Itoa(d.checksum), "):">> \o d.message
SpareDiskLine(d) == <<"disk", d.name, "-", d.state, ":">> \o d.message

\* every pool, group and disk is healthy, but for disk <<pi, vi, di>>
OnlyBadDisk(pi, vi, di) ==
    /\ ~DiskOK(pi, vi, di)
    /\ \A qi \in PoolIdx :
         /\ PoolFieldsOK(pools[qi])
         /\ \A wi \in GroupIdx(qi) :
              /\ Groups(qi)[wi].typev \in {vdevTypeRaidz, vdevTypeSpare}
              /\ Groups(qi)[wi].typev = vdevTypeRaidz
                    => GroupFieldsOK(Groups(qi)[wi])
              /\ \A ei \in DiskIdx(qi, wi) :
                    <<qi, wi, ei>> /= <<pi, vi, di>> => DiskOK(qi, wi, ei)

\* C1: when exactly one disk of a standard group is unhealthy and all else
\* is healthy, checkPoolStatus returns an error whose payload is exactly the
\* pool's line, the owning group's line and that disk's line, in this order.
C1_OneBadDisk ==
    Reported =>
      \A pi \in PoolIdx : \A vi \in GroupIdx(pi) : \A di \in DiskIdx(pi, vi) :
        (Groups(pi)[vi].typev = vdevTypeRaidz /\ OnlyBadDisk(pi, vi, di))
        => /\ perr.kind = "health"
           /\ perr.msg = PoolLine(pools[pi]) \o <<NL>>
                         \o GroupLine(Groups(pi)[vi]) \o <<NL>>
                         \o StdDiskLine(DiskAt(pi, vi, di))
           /\ Len(diag) = 3

\* an OFFLINE disk beside a healthy one, in the first of two groups of the
\* first of two pools, reported
C1_Witness ==
    /\ Reported
    /\ Len(pools) = 2
    /\ Len(Groups(1)) = 2
    /\ Len(Groups(1)[1].disks) = 2
    /\ Groups(1)[1].typev = vdevTypeRaidz
    /\ OnlyBadDisk(1, 1, 2)
    /\ DiskAt(1, 1, 2).state = "OFFLINE"

\* C2: a document of pools that are ONLINE with zero counters and the
\* sentinel error text, whose groups are all standard, ONLINE, zero-counter
\* and hold only ONLINE zero-counter message-free disks, yields no error and
\* no diagnostic line.
C2_HealthyNoError ==
    (/\ Reported
     /\ \A pi \in PoolIdx :
          /\ PoolFieldsOK(pools[pi])
          /\ \A vi \in GroupIdx(pi) :
               /\ Groups(pi)[vi].typev = vdevTypeRaidz
               /\ GroupFieldsOK(Groups(pi)[vi])
               /\ \A di \in DiskIdx(pi, vi) : StdDiskOK(DiskAt(pi, vi, di)))
    => perr = NoErr /\ diag = <<>>

\* two healthy pools, three groups and four disks between them, reported
C2_Witness ==
    /\ Reported
    /\ Len(pools) = 2
    /\ \A pi \in PoolIdx :
          /\ PoolFieldsOK(pools[pi])
          /\ GroupIdx(pi) /= {}
          /\ \A vi \in GroupIdx(pi) :
               /\ Groups(pi)[vi].typev = vdevTypeRaidz
               /\ GroupFieldsOK(Groups(pi)[vi])
               /\ DiskIdx(pi, vi) /= {}
               /\ \A di \in DiskIdx(pi, vi) : StdDiskOK(DiskAt(pi, vi, di))
    /\ perr = NoErr

\* the parsed records as they stand: inside the loop of parsePools, after
\* it, and when checkPoolStatus has reported
Parsed == pc \in {"parse", "eval"} \/ Reported

\* diag holds the line of disk <<pi, vi, di>>, in the spare format
HasSpareDiskLine(pi, vi, di) ==
    \E k \in 1..Len(diag) :
        /\ diag[k].kind = "disk"
        /\ <<diag[k].p, diag[k].v, diag[k].d>> = <<pi, vi, di>>
        /\ diag[k].text = SpareDiskLine(DiskAt(pi, vi, di))

\* C3 as stated: vdev.Healthy reports a group of kind SparePool healthy for
\* every set of owned disks, also when every one of them is unhealthy.
C3_Original ==
    Parsed =>
      \A pi \in PoolIdx : \A vi \in GroupIdx(pi) :
        Groups(pi)[vi].typev = vdevTypeSpare
        => VdevHealthy(heap, Groups(pi)[vi])

\* C3 as amended: the state and the counters of a group of kind SparePool
\* never count against it, but its disks do: vdev.Healthy reports it healthy
\* exactly when every one of its disks has state AVAIL; and the line of each
\* unhealthy spare disk appears in the output of checkPoolStatus.
C3_SpareGroup ==
    Parsed =>
      \A pi \in PoolIdx : \A vi \in GroupIdx(pi) :
        Groups(pi)[vi].typev = vdevTypeSpare
        => /\ VdevHealthy(heap, Groups(pi)[vi])
                <=> \A di \in DiskIdx(pi, vi) :
                        DiskAt(pi, vi, di).state = "AVAIL"
           /\ Reported =>
                \A di \in DiskIdx(pi, vi) :
                    DiskAt(pi, vi, di).state /= "AVAIL"
                    => perr.kind = "health" /\ HasSpareDiskLine(pi, vi, di)

\* a spare group all of whose disks are unhealthy, reported
C3_Witness ==
    /\ Reported
    /\ \E pi \in PoolIdx : \E vi \in GroupIdx(pi) :
         /\ Groups(pi)[vi].typev = vdevTypeSpare
         /\ Groups(pi)[vi].state /= "ONLINE"
         /\ DiskIdx(pi, vi) /= {}
         /\ \A di \in DiskIdx(pi, vi) : DiskAt(pi, vi, di).state /= "AVAIL"
         /\ ~VdevHealthy(heap, Groups(pi)[vi])

\* C4: a pool that is healthy but for one disk of its spares group whose
\* state is not AVAIL yields an error whose payload is exactly the pool's
\* line, the spares group's line and that disk's line in the counter-less
\* format, in this order.
C4_OneBadSpare ==
    Reported =>
      \A pi \in PoolIdx : \A vi \in GroupIdx(pi) : \A di \in DiskIdx(pi, vi) :
        (Groups(pi)[vi].typev = vdevTypeSpare /\ OnlyBadDisk(pi, vi, di))
        => /\ perr.kind = "health"
           /\ perr.msg = PoolLine(pools[pi]) \o <<NL>>
                         \o GroupLine(Groups(pi)[vi]) \o <<NL>>
                         \o SpareDiskLine(DiskAt(pi, vi, di))
           /\ Len(diag) = 3

\* an UNAVAIL spare under a healthy pool with a healthy standard group
C4_Witness ==
    /\ Reported
    /\ Len(pools) = 1
    /\ Len(Groups(1)) = 2
    /\ Groups(1)[1].typev = vdevTypeRaidz
    /\ Groups(1)[2].typev = vdevTypeSpare
    /\ Len(Groups(1)[2].disks) = 1
    /\ OnlyBadDisk(1, 2, 1)
    /\ DiskAt(1, 2, 1).state = "UNAVAIL"
    /\ perr.kind = "health"

\* C5: in the payload of checkPoolStatus a group line stands only for an
\* unhealthy group of an unhealthy pool; a disk line stands only for an
\* unhealthy disk, after the line of its own group, with nothing but lines
\* of disks of that group in between; a healthy pool has no line at all.
C5_Nesting ==
    Reported =>
      \A k \in 1..Len(diag) :
        LET it == diag[k]
        IN  /\ it.kind \in {"pool", "vdev", "disk"} => ~PoolOK(it.p)
            /\ it.kind = "pool" => it.text = PoolLine(pools[it.p])
            /\ it.kind = "vdev"
                 => /\ ~GroupOK(it.p, it.v)
                    /\ it.text = GroupLine(Groups(it.p)[it.v])
                    /\ \E j \in 1..(k - 1) :
                         diag[j].kind = "pool" /\ diag[j].p = it.p
            /\ it.kind = "disk"
                 => /\ ~DiskOK(it.p, it.v, it.d)
                    /\ \E j \in 1..(k - 1) :
                         /\ diag[j].kind = "vdev"
                         /\ <<diag[j].p, diag[j].v>> = <<it.p, it.v>>
                         /\ \A m \in (j + 1)..k :
                              /\ diag[m].kind = "disk"
                              /\ <<diag[m].p, diag[m].v>> = <<it.p, it.v>>

\* an unhealthy pool with a healthy group before an unhealthy one: the
\* payload is the pool's line, the second group's line and a disk's line
C5_Witness ==
    /\ Reported
    /\ Len(diag) = 3
    /\ <<diag[1].kind, diag[2].kind, diag[3].kind>> = <<"pool", "vdev", "disk">>
    /\ diag[2].v = 2
    /\ GroupOK(1, 1)

\* the scan line of pool pi, as it stood in the document, tells of a scrub
\* that repaired with errors
ScrubFault(pi) ==
    /\ ContainsPhrase(scanSeen[pi], <<"scrub", "repaired">>)
    /\ ~ContainsPhrase(scanSeen[pi], <<"with", "0", "errors">>)

\* C6: a document whose scan line contains "scrub repaired" but not "with 0
\* errors" makes checkPoolStatus return an error that reports a scrub fault
\* for that pool, whatever the structural health.
C6_ScrubFault ==
    Reported =>
      \A pi \in PoolIdx :
        ScrubFault(pi)
        => /\ perr.kind = "health"
           /\ \E k \in 1..Len(diag) : diag[k].kind = "scrub" /\ diag[k].p = pi

\* parsePoolState has just handled the line `line` in parse state st
Handles(st) == pc = "parse" /\ parseState = st /\ pos' > pos

\* the name and the state a line shows where a pool row has them
RowName(l) == IF Len(l.toks) >= 1 THEN l.toks[1] ELSE ""
RowState(l) == IF Len(l.toks) >= 2 THEN l.toks[2] ELSE ""
LastPool == pools[Len(pools)]

\* C7: in the Pool-header-confirm state a row whose name or state differs
\* from the name of the "pool:" line or the state of the "state:" line (""
\* when there was none) makes parsePools return an error and the parser does
\* not advance to the Group state; the error names the mismatch (what the
\* row shows and what was recorded) whenever the row has the layout of a
\* pool row, and is the layout's parse error otherwise.
C7_RowMismatch ==
    [][(/\ Handles(zpoolParsePool)
        /\ \/ RowName(line') /= LastPool.name
           \/ RowState(line') /= LastPool.state)
       => /\ pc' = "poolDone"
          /\ pools' = <<>>
          /\ parseState' = zpoolParsePool
          /\ IF ~Sscanf(line'.toks, RowFmt)
             THEN perr' = ParseError(line')
             ELSE IF RowName(line') /= LastPool.name
             THEN perr' = NameError(RowName(line'), LastPool.name)
             ELSE perr' = StateError(RowState(line'), LastPool.state)
      ]_vars

\* a well-formed pool row rejected for its state when no "state:" line was
\* seen
C7_Witness ==
    /\ pc = "poolDone"
    /\ perr.kind = "state"
    /\ perr.want = ""
    /\ perr.got = "ONLINE"
    /\ parseState = zpoolParsePool

IsActionLine(l) == HasPrefix(TrimSpace(l), "action:")

\* the line just handled created no record, raised no error and changed
\* neither the parse state nor any pool
Inert ==
    /\ pools' = pools
    /\ heap' = heap
    /\ parseState' = parseState
    /\ perr' = NoErr
    /\ pc' = "parse"

\* C8 as stated: an "action:" line is inert in whichever parser state it is
\* handled.
C8_Original ==
    [][(pc = "parse" /\ pos' > pos /\ IsActionLine(line')) => Inert]_vars

\* C8 as amended: an "action:" line handled in the Status state is inert: it
\* creates no pool, group or disk, raises no parse error and leaves the parse
\* state and every field of every pool, the status text included, unchanged.
C8_ActionInStatus ==
    [][(Handles(zpoolParseStatus) /\ IsActionLine(line')) => Inert]_vars

\* an "action:" line was just handled in the Status state of a pool that has
\* a state and status text
C8_Witness ==
    /\ pc = "parse"
    /\ IsActionLine(line)
    /\ parseState = zpoolParseStatus
    /\ LastPool.status /= <<>>
    /\ LastPool.state /= ""

(***************************************************************************)
(* Vocabulary of the self-test claims, stated on the logs the executer     *)
(* returned rather than by the loop of checkSmartStatus.                   *)
(***************************************************************************)
\* the rows of a log that count as finished tests
Finished(log) == SelectSeq(log, LAMBDA r : r.pct = "00%")
FailedRows(log) ==
    {j \in 1..Len(Finished(log)) : Finished(log)[j].desc /= Completed}

\* the failing rows are one in twenty of the finished rows, or more
LogBreaches(log) ==
    /\ Len(Finished(log)) > 0
    /\ ThresholdDen * Cardinality(FailedRows(log)) >= Len(Finished(log))

\* some finished row has an hour count that is no int
Unreadable(log) ==
    \E j \in 1..Len(Finished(log)) : Finished(log)[j].hours \notin IntToks

Passes(log) == ~LogBreaches(log) /\ ~Unreadable(log)

\* the ages the logs returned so far contribute: that of the first finished
\* row of each
FirstAges ==
    {Atoi(Finished(logs[i])[1].hours) :
       i \in {k \in 1..Len(logs) :
                /\ Len(Finished(logs[k])) > 0
                /\ Finished(logs[k])[1].hours \in IntToks}}

SmartReturned == pc = "smartDone"

QueriesArePrefix ==
    /\ Len(calls) <= Len(Disks)
    /\ calls = SubSeq(Disks, 1, Len(calls))
    /\ Len(logs) \in {Len(calls), Len(calls) - 1}
    /\ \A i \in 1..(Len(logs) - 1) : Passes(logs[i])

\* C9 as stated: the executer invocations are a prefix of sda..sdf, the full
\* list when no disk breaches and no command fails, otherwise ending at the
\* first disk whose log breaches or whose command fails, which the error
\* names.
C9_Original ==
    /\ QueriesArePrefix
    /\ SmartReturned
       => IF serr.kind = "exec"
          THEN Len(logs) = Len(calls) - 1
          ELSE /\ Len(logs) = Len(calls)
               /\ IF \A i \in 1..Len(logs) : ~LogBreaches(logs[i])
                  THEN calls = Disks /\ serr = NoErr
                  ELSE /\ LogBreaches(logs[Len(logs)])
                       /\ serr.kind = "smart"
                       /\ serr.disk = calls[Len(calls)]

\* C9 as amended: the executer invocations are always a prefix of sda, sdb,
\* sdc, sdd, sde, sdf, each disk queried at most once: the full list when
\* checkSmartStatus returns no error, otherwise ending at the first disk
\* whose command fails, whose log has an hour count that is no int, or whose
\* log breaches the threshold; a breach error names exactly that disk; every
\* earlier log passed, and the returned ages come from the first finished
\* rows of the logs of the disks queried and from nothing else.
C9_QueryPrefix ==
    /\ QueriesArePrefix
    /\ pc = "smart"
       => /\ serr = NoErr
          /\ Len(logs) = Len(calls)
          /\ \A i \in 1..Len(logs) : Passes(logs[i])
    /\ SmartReturned
       => /\ serr = NoErr
             => /\ calls = Disks
                /\ Len(logs) = Len(Disks)
                /\ \A i \in 1..Len(logs) : Passes(logs[i])
          /\ serr /= NoErr => serr.kind \in {"exec", "atoi", "smart"}
          /\ serr.kind = "exec" => Len(logs) = Len(calls) - 1
          /\ serr.kind = "atoi"
             => Len(logs) = Len(calls) /\ Unreadable(logs[Len(logs)])
          /\ serr.kind = "smart"
             => /\ Len(logs) = Len(calls)
                /\ LogBreaches(logs[Len(logs)])
                /\ ~Unreadable(logs[Len(logs)])
                /\ serr.disk = calls[Len(calls)]
    /\ \A a \in FirstAges : a <= oldest
    /\ oldest \in FirstAges \cup {0}
    /\ pc \in {"smart", "smartDone"}
       => /\ \A a \in FirstAges : youngest <= a
          /\ youngest \in FirstAges \cup {MaxInt32}

\* the first three disks passed, the fourth breaches and is named, and the
\* last two were never queried
C9_Witness ==
    /\ SmartReturned
    /\ serr.kind = "smart"
    /\ serr.disk = "sdd"
    /\ calls = <<"sda", "sdb", "sdc", "sdd">>
    /\ Len(logs) = 4
    /\ oldest > 0

\* the failing row that comes first in the log
FirstFailure(log) ==
    Finished(log)[CHOOSE j \in FailedRows(log) :
                    \A k \in FailedRows(log) : j <= k].desc

\* C10: when a disk breaches the threshold the error carries the description
\* of the most recent failing outcome, the failing row that comes first in
\* the log.
C10_MostRecentFailure ==
    (SmartReturned /\ serr.kind = "smart")
    => serr.desc = FirstFailure(logs[Len(logs)])

\* the ages of the rows after the first finished row of the logs returned
LaterAges ==
    UNION {{Atoi(Finished(logs[i])[j].hours) :
              j \in {k \in 2..Len(Finished(logs[i])) :
                       Finished(logs[i])[k].hours \in IntToks}} :
           i \in 1..Len(logs)}

RowCount(log) == Len(Finished(log))
FailCount(log) == Cardinality(FailedRows(log))

\* checkSmartStatus failed on the threshold for the disk of logs[i]
ThresholdFailure(i) ==
    /\ SmartReturned
    /\ i = Len(logs)
    /\ serr.kind = "smart"
    /\ serr.disk = Disks[i]

LastExecErr == executed[Len(executed)].err

\* C13: when the executer returns an error, checkPoolStatus and
\* checkSmartStatus return that very error value, no text is parsed and the
\* executer is not called again.
C13_ExecErrorUnchanged ==
    /\ \A i \in 1..(Len(executed) - 1) : executed[i].err = NoErr
    /\ (pc = "poolDone" /\ executed[1].err /= NoErr)
       => /\ perr = executed[1].err
          /\ Len(executed) = 1
          /\ tmpl = 0 /\ pos = 0 /\ line = NoLine
          /\ pools = <<>> /\ diag = <<>>
    /\ (SmartReturned /\ LastExecErr /= NoErr)
       => /\ serr = LastExecErr
          /\ Len(executed) = 1 + Len(calls)
          /\ LastExecErr.kind = "exec"
          /\ Len(logs) = Len(calls) - 1
          /\ \A i \in 1..Len(logs) : Passes(logs[i])

\* the command for the third disk failed after two logs were scanned, and
\* checkSmartStatus has returned its error
C13_Witness ==
    /\ SmartReturned
    /\ Len(executed) = 4
    /\ LastExecErr = ExecError("wrote the following to stderr")
    /\ executed[4].cmd = Smartctl("sdc")
    /\ serr = LastExecErr
    /\ Len(logs) = 2

\* the outcome of parsePoolState on the line just read
Outcome == parsePoolState([pools |-> pools, heap |-> heap,
                           parseState |-> parseState], line')

IsParseFailure(e) == e.kind \in {"parse", "name", "state"}

\* C14: a parse error is fatal: parsePools stops at the line that raised it
\* and returns the error and no pools, those completed before included, and
\* checkPoolStatus returns that error without evaluating any pool's health.
C14_ParseErrorFatal ==
    /\ []((pc = "poolDone" /\ IsParseFailure(perr))
           => pools = <<>> /\ diag = <<>>)
    /\ [][(pc = "parse" /\ pos' > pos /\ Outcome.err /= NoErr)
          => /\ pc' = "poolDone"
             /\ perr' = Outcome.err
             /\ IsParseFailure(perr')
             /\ pools' = <<>>
             /\ diag' = <<>>
             /\ pos' = pos + 1
             /\ executed' = executed
         ]_vars

\* a line of the second pool of a document raised a parse error after the
\* first pool was complete, and nothing is left of either
C14_Witness ==
    /\ pc = "poolDone"
    /\ perr.kind = "parse"
    /\ tmpl = 1
    /\ pos >= 20
    /\ parseState = zpoolParsePool
    /\ pools = <<>>
    /\ diag = <<>>

\* the line has the layout the Group state expects: a group keyword, and
\* fields that scan
GroupLayout(l) ==
    IF Contains(l, "mirror-") \/ Contains(l, "raidz")
    THEN Sscanf(l.toks, RowFmt)
    ELSE Contains(l, "spares") /\ Sscanf(l.toks, <<"%s">>)

\* C15: in the Group state a line without a group layout is a fatal parse
\* error: no group is added for it and the parser does not go on to the
\* Disk state.
C15_GroupLayoutFatal ==
    [][(Handles(zpoolParseVdev) /\ ~GroupLayout(line'))
       => /\ pc' = "poolDone"
          /\ IsParseFailure(perr')
          /\ parseState' /= zpoolParseDisk
      ]_vars

\* text a starts text b; text a ends text b
IsPrefix(a, b) == Len(a) <= Len(b) /\ SubSeq(b, 1, Len(a)) = a
IsSuffix(a, b) ==
    Len(a) <= Len(b) /\ SubSeq(b, Len(b) - Len(a) + 1, Len(b)) = a

\* C16: in the Errors state the first non-blank line sets the pool's error
\* text and each later one is appended to it after a separator, so that the
\* text holds all the lines seen, in order, and the first is never lost.
C16_ErrorsAppended ==
    [][(Handles(zpoolParseErrors) /\ line'.toks /= <<>> /\ pc' = "parse")
       => LET old == LastPool.errors
              new == pools'[Len(pools')].errors
          IN  IF old = <<>>
              THEN new = LineText(line')
              ELSE /\ IsPrefix(old, new)
                   /\ IsSuffix(LineText(line'), new)
                   /\ Len(new) > Len(old) + Len(LineText(line'))
      ]_vars

\* the names of the pools, in order
Names(ps) == [i \in 1..Len(ps) |-> ps[i].name]

\* C17: the end of the input is accepted in every parser state: parsePools
\* then returns, without error, the pools begun so far, one per accepted
\* "pool:" line and in the order of the document, also when the input ends
\* within the three lines skipped after a scan line.
C17_EndOfInput ==
    /\ [](pc = "parse" => ENABLED EndOfInput)
    /\ [](pc = "eval" => perr = NoErr /\ Len(pools) = Len(scanSeen))
    /\ [][(pc = "parse" /\ pc' = "eval")
          => /\ pools' = pools /\ heap' = heap
             /\ perr' = NoErr
             /\ parseState' = parseState]_vars
    /\ [][(pc = "parse" /\ pc' = "parse" /\ pos' > pos)
          => IF parseState = zpoolParseStart
             THEN Names(pools') = Append(Names(pools), line'.toks[2])
             ELSE Names(pools') = Names(pools)]_vars
    /\ [][(pc = "parse" /\ pc' = "poolDone") => Outcome.err /= NoErr]_vars
    /\ [][pc = "eval" => ~IsParseFailure(perr')]_vars

\* the document ended one line after the scan line of its second pool, and
\* parsePools has returned both pools
C17_Witness ==
    /\ pc = "eval"
    /\ eof
    /\ parseState = zpoolParsePool
    /\ Len(skipped) = 1
    /\ Names(pools) = <<"tank", "boot">>
    /\ perr = NoErr

\* the groups of the last pool before and after the line just handled
GroupsBefore == Elems(heap, LastPool.vdevs)
GroupsAfter == Elems(heap', pools'[Len(pools')].vdevs)

IsBlank(l) == l.toks = <<>>

\* the line begins a new group of the last pool, and the parser is in Disk
BeginsGroup ==
    /\ pc' = "parse"
    /\ parseState' = zpoolParseDisk
    /\ Len(pools') = Len(pools)
    /\ Len(GroupsAfter) = Len(GroupsBefore) + 1
    /\ SubSeq(GroupsAfter, 1, Len(GroupsBefore)) = GroupsBefore
    /\ GroupsAfter[Len(GroupsAfter)].disks = <<>>

\* the line appends one disk to the last group, and the parser stays in Disk
AppendsDisk ==
    /\ pc' = "parse"
    /\ parseState' = zpoolParseDisk
    /\ Len(pools') = Len(pools)
    /\ Len(GroupsAfter) = Len(GroupsBefore)
    /\ \A vi \in 1..Len(GroupsBefore) :
         IF vi = Len(GroupsBefore)
         THEN /\ Len(GroupsAfter[vi].disks) = Len(GroupsBefore[vi].disks) + 1
              /\ SubSeq(GroupsAfter[vi].disks, 1, Len(GroupsBefore[vi].disks))
                   = GroupsBefore[vi].disks
              /\ [GroupsAfter[vi] EXCEPT !.disks = <<>>]
                   = [GroupsBefore[vi] EXCEPT !.disks = <<>>]
         ELSE GroupsAfter[vi] = GroupsBefore[vi]

\* the line moves the parser to Errors and leaves no record
ClosesDevices ==
    /\ pc' = "parse"
    /\ parseState' = zpoolParseErrors
    /\ pools' = pools /\ heap' = heap

\* the line is rejected with its parse error, the parser left in state st
Rejected(st) ==
    /\ pc' = "poolDone"
    /\ perr' = ParseError(line')
    /\ parseState' = st

\* the fields of a disk row scan under a group of kind typev
DiskFieldsScan(typev, l) ==
    IF typev = vdevTypeRaidz THEN Sscanf(l.toks, RowFmt)
    ELSE IF typev = vdevTypeSpare THEN Sscanf(l.toks, <<"%s", "%s">>)
    ELSE TRUE

HasGroupKeyword(l) ==
    Contains(l, "mirror-") \/ Contains(l, "raidz") \/ Contains(l, "spares")

\* C18 as stated: in the Disk state a blank line moves the parser to Errors
\* and leaves no record; a line that is neither blank nor a disk row begins
\* a new group of the same pool and leaves the parser in Disk; a disk row
\* appends exactly one disk to the last group and leaves the parser in Disk.
C18_Original ==
    [][Handles(zpoolParseDisk)
       => IF diskRe(line') THEN AppendsDisk
          ELSE IF IsBlank(line') THEN ClosesDevices
          ELSE BeginsGroup
      ]_vars

\* C18 as amended: in the Disk state a line never raises a parse error by
\* failing to match the disk pattern.  A blank line moves the parser to
\* Errors and leaves no record.  A line that is neither blank nor matching
\* is dispatched once more, in the Group state, and is handled as that state
\* handles it: it begins a new group of the same pool and leaves the parser
\* in Disk, unless it has a group keyword and fields that do not scan, which
\* is the parse error of the Group state.  A matching line whose fields scan
\* for the kind of the last group appends exactly one disk to that group and
\* leaves the parser in Disk; one whose fields do not scan is a parse error.
C18_DiskState ==
    [][Handles(zpoolParseDisk)
       => IF diskRe(line')
          THEN IF DiskFieldsScan(GroupsBefore[Len(GroupsBefore)].typev, line')
               THEN AppendsDisk
               ELSE Rejected(zpoolParseDisk)
          ELSE IF IsBlank(line') THEN ClosesDevices
          ELSE IF HasGroupKeyword(line') /\ ~GroupLayout(line')
               THEN Rejected(zpoolParseVdev)
               ELSE BeginsGroup
      ]_vars

\* the row of a second group, met in the Disk state after two disks of the
\* first, has begun the second group
C18_Witness ==
    /\ pc = "parse"
    /\ parseState = zpoolParseDisk
    /\ line = LMirror1
    /\ ~diskRe(line)
    /\ Len(Groups(1)) = 2
    /\ Len(Groups(1)[1].disks) = 2
    /\ Groups(1)[2].disks = <<>>
    /\ Groups(1)[2].name = "mirror-1"

IsScanLine(l) == HasPrefix(TrimSpace(l), "scan:")

\* C19: a "scan:" line met in the Status state is dispatched twice (Status,
\* then Scan) and creates no record; the next three lines of the input are
\* consumed uninterpreted, whatever they hold (fewer only when the input
\* ends among them), and the fourth line after the scan line is the one
\* handled in the Pool-header-confirm state.
C19_ScanSkipsThree ==
    /\ [][(Handles(zpoolParseStatus) /\ IsScanLine(line'))
          => /\ Outcome = caseScan([pools |-> pools, heap |-> heap,
                                    parseState |-> zpoolParseScan], line')
             /\ pc' = "parse"
             /\ parseState' = zpoolParsePool
             /\ heap' = heap
             /\ pools' = [pools EXCEPT ![Len(pools)].scanStatus =
                                           <<line'.toks[2]>>]
             /\ pos' = pos + 1 + Len(skipped')
             /\ IF eof' THEN Len(skipped') < 3 ELSE Len(skipped') = 3
         ]_vars
    /\ [][(Handles(zpoolParsePool) /\ IsScanLine(line))
          => /\ pos' = pos + 1
             /\ Outcome = casePool([pools |-> pools, heap |-> heap,
                                    parseState |-> zpoolParsePool], line')
         ]_vars

\* a scan line was handled and three lines skipped, one of them a "pool:"
\* line that any state would have acted on
C19_Witness ==
    /\ pc = "parse"
    /\ IsScanLine(line)
    /\ parseState = zpoolParsePool
    /\ Len(skipped) = 3
    /\ \E k \in 1..3 : skipped[k] = LPoolTank
    /\ ~eof
    /\ Len(pools) = 1
    /\ LastPool.vdevs = NilSlice

\* C20: over any sequence of calls of notify, with heartbeat.json persisting
\* between them, a call made less than 23 hours after the last message sent
\* returns without calling SendMessage: no two messages are ever sent less
\* than 23 hours apart.
C20_Throttle ==
    \A i, j \in 1..Len(sent) :
        i < j => sent[j].at - sent[i].at >= ThrottleHours

\* the step of main a call of the executer belongs to
StepOf(c) ==
    IF c.cmd[1] = "/sbin/zpool" THEN 1
    ELSE IF c.cmd[1] = "/sbin/smartctl" THEN 2 ELSE 3

\* the calls of the executer made for step n
CallsOf(n) == {i \in 1..Len(executed) : StepOf(executed[i]) = n}

\* the titles handed to notify, in order
Titles == [i \in 1..Len(notified) |-> notified[i][1]]

\* a step has returned an error to main, which has not handled it yet
StepFailed ==
    \/ pc = "poolDone" /\ perr /= NoErr
    \/ pc = "smartDone" /\ serr /= NoErr
    \/ pc = "usageDone" /\ uerr /= NoErr

\* C21: in one run of main the executer is asked once for the pool status,
\* then once per disk for its self-test log, then once for the free space,
\* in that order and never again; the self-test check starts only when the
\* pool-status check returned no error and the free-space query only when
\* both returned none; a step that returns an error ends the run, with no
\* further call of the executer, by a request for "Health check failed!";
\* and "Heartbeat" is requested only at the end of a run whose three steps
\* returned no error and whose clock reads Saturday, 8:00 to 8:29.
C21_RunOrder ==
    /\ [](/\ Cardinality(CallsOf(1)) <= 1
          /\ Cardinality(CallsOf(3)) <= 1
          /\ \A i, j \in CallsOf(2) :
                executed[i].cmd = executed[j].cmd => i = j
          /\ \A i, j \in 1..Len(executed) :
                i < j => /\ StepOf(executed[i]) <= StepOf(executed[j])
                         /\ executed[i].err = NoErr
          /\ CallsOf(2) /= {} => CallsOf(1) /= {} /\ perr = NoErr
          /\ CallsOf(3) /= {} => /\ Cardinality(CallsOf(2)) = Len(Disks)
                                 /\ perr = NoErr /\ serr = NoErr)
    /\ [][StepFailed
          => /\ pc' = "done"
             /\ executed' = executed
             /\ Titles' = Append(Titles, "Health check failed!")]_vars
    /\ [](pc = "done" => ~ENABLED Next)
    /\ [](\A i \in 1..Len(notified) :
            Titles[i] = "Heartbeat"
            => /\ pc = "done"
               /\ i = Len(notified)
               /\ perr = NoErr /\ serr = NoErr /\ uerr = NoErr
               /\ Cardinality(CallsOf(1)) = 1
               /\ Cardinality(CallsOf(2)) = Len(Disks)
               /\ Cardinality(CallsOf(3)) = 1
               /\ \A k \in 1..Len(executed) : executed[k].err = NoErr
               /\ clock.weekday = "Saturday"
               /\ clock.hour = 8
               /\ clock.minute <= 29)

\* a run whose three steps succeeded on a Saturday at 8:29 has asked for
\* the heartbeat with the free space of both pools
C21_Witness ==
    /\ pc = "done"
    /\ Titles = <<"Heartbeat">>
    /\ Len(executed) = 8
    /\ usage = <<<<"boot-pool", "200G">>, <<"primarySafe", "3T">>>>
    /\ clock.minute = 29

\* the slice of groups of the last pool designates live storage
LastGroupValid ==
    /\ LastPool.vdevs.len >= 1
    /\ LastPool.vdevs.arr \in 1..Len(heap)
    /\ LastPool.vdevs.len <= Len(heap[LastPool.vdevs.arr])

\* C22: while parsePools runs, and when it has returned at the end of the
\* input, a parse state other than Start goes with a non-empty list of
\* pools, and the states Disk and Errors with a last pool that owns at
\* least one group; so a line handled as a disk row in the Disk state finds
\* both the last pool and its last group.
C22_RecordsPresent ==
    /\ [](pc \in {"parse", "eval"} /\ parseState /= zpoolParseStart
          => Len(pools) >= 1)
    /\ [](pc \in {"parse", "eval"}
          /\ parseState \in {zpoolParseDisk, zpoolParseErrors}
          => Len(pools) >= 1 /\ LastGroupValid)
    /\ [][Handles(zpoolParseDisk) /\ diskRe(line')
          => /\ Len(pools) >= 1
             /\ Len(GroupsBefore) >= 1
             /\ LastGroupValid]_vars

\* a disk row has just been handled in the Disk state of the second pool,
\* under a group begun by a line with no group keyword
C22_Witness ==
    /\ pc = "parse"
    /\ parseState = zpoolParseDisk
    /\ diskRe(line)
    /\ Len(pools) = 2
    /\ Len(Elems(heap, LastPool.vdevs)) = 1
    /\ Elems(heap, LastPool.vdevs)[1].typev = vdevTypeNone
    /\ Len(Elems(heap, LastPool.vdevs)[1].disks) = 1

\* the back-reference of a disk designates a record of the heap
RefValid(ref) ==
    /\ ref.arr \in 1..Len(heap)
    /\ ref.idx \in 1..Len(heap[ref.arr])

\* Healthy() and String() of a disk as the rules of a group kind have them
HealthyByKind(k, d) ==
    IF k = vdevTypeSpare THEN d.state = "AVAIL" ELSE StdDiskOK(d)
StringByKind(k, d) ==
    IF k = vdevTypeSpare
    THEN <<"disk", d.name, "-", d.state, ":">> \o d.message
    ELSE <<"disk", d.name, "-", d.state>> \o Counters(d) \o <<"):">>
         \o d.message

\* the back-reference of the disk points into storage the pool has left
Stale(pi, vi, di) == DiskAt(pi, vi, di).vdev.arr /= pools[pi].vdevs.arr

\* C23: while parsePools runs and when it has returned, the back-reference
\* of every disk of every group of every pool designates a live record
\* whose kind is the kind of the group that holds the disk in its list,
\* also when the reference points into storage the pool's groups were
\* copied out of; hence Healthy() and String() of the disk are those of
\* the rules of its own group's kind.
C23_BackReference ==
    pc \in {"parse", "eval"}
    => \A pi \in PoolIdx : \A vi \in GroupIdx(pi) : \A di \in DiskIdx(pi, vi) :
         LET d == DiskAt(pi, vi, di)
             k == Groups(pi)[vi].typev
         IN  /\ RefValid(d.vdev)
             /\ Deref(heap, d.vdev).typev = k
             /\ DiskHealthy(heap, d) = HealthyByKind(k, d)
             /\ DiskString(heap, d) = StringByKind(k, d)

\* a pool of three groups, the storage of which was reallocated twice: the
\* disks of its first group, a raidz, and of its second, the spares, point
\* into storage the pool has left
C23_Witness ==
    /\ pc = "parse"
    /\ Len(pools) >= 1
    /\ Len(Groups(1)) = 3
    /\ Groups(1)[1].typev = vdevTypeRaidz
    /\ Groups(1)[2].typev = vdevTypeSpare
    /\ Len(Groups(1)[1].disks) >= 1
    /\ Len(Groups(1)[2].disks) >= 1
    /\ Stale(1, 1, 1)
    /\ Stale(1, 2, 1)
    /\ DiskAt(1, 1, 1).vdev.arr /= DiskAt(1, 2, 1).vdev.arr

\* every record a disk of pool pi points back at
BackRecords(h, ps, pi) ==
    LET gs == Elems(h, ps[pi].vdevs)
    IN  [vi \in 1..Len(gs) |->
            [di \in 1..Len(gs[vi].disks) |-> Deref(h, gs[vi].disks[di].vdev)]]

\* pool pi, its groups, their disks and the records the disks point back at
\* are after the step what they were before
PoolUntouched(pi) ==
    /\ pools'[pi] = pools[pi]
    /\ Elems(heap', pools'[pi].vdevs) = Elems(heap, pools[pi].vdevs)
    /\ BackRecords(heap', pools', pi) = BackRecords(heap, pools, pi)

\* C24: a line handled without error leaves every pool but the last as it
\* was, with its groups, its disks and the records they point back at; a
\* line handled in a state other than Start adds no pool and keeps the
\* order, so it can only change the pool begun last; a line accepted in
\* Start puts the pool of its header after the pools already there.
C24_OnlyLastPool ==
    [][(pc = "parse" /\ pc' = "parse" /\ pos' > pos)
       => /\ \A pi \in 1..(Len(pools) - 1) : PoolUntouched(pi)
          /\ IF parseState = zpoolParseStart
             THEN /\ Len(pools') = Len(pools) + 1
                  /\ \A pi \in 1..Len(pools) : PoolUntouched(pi)
                  /\ pools'[Len(pools')].name = line'.toks[2]
             ELSE /\ Len(pools') = Len(pools)
                  /\ Names(pools') = Names(pools)]_vars

\* the second pool has groups and disks and a line of its Errors state has
\* just replaced its errors text, the first pool being closed and complete
C24_Witness ==
    /\ pc = "parse"
    /\ Len(pools) = 2
    /\ parseState = zpoolParseErrors
    /\ LastPool.errors = LineText(line)
    /\ line /= LErrorsNone
    /\ Len(Groups(2)) >= 1
    /\ Len(Groups(2)[1].disks) >= 1
    /\ pools[1].errors = Sentinel
    /\ Len(Groups(1)) >= 1

\* the log the executer returned for the disk just scanned has no row that
\* the pattern matches
ScannedNoRows ==
    /\ pc = "smart"
    /\ Len(logs') = Len(logs) + 1
    /\ RowCount(logs'[Len(logs')]) = 0

\* C25: a disk whose log has no matching row raises no error and leaves
\* oldest and youngest as they were, and checkSmartStatus goes on to the
\* next disk, or returns without error after the last; when the logs of all
\* the disks have no matching row it returns no error, oldest = 0 and
\* youngest = 2147483647.
C25_NoRowsPasses ==
    /\ [][ScannedNoRows
          => /\ serr' = NoErr
             /\ oldest' = oldest
             /\ youngest' = youngest
             /\ calls' = Append(calls, Disks[Len(calls) + 1])
             /\ IF Len(calls') < Len(Disks)
                THEN pc' = "smart"
                ELSE pc' = "smartDone"]_vars
    /\ [](pc = "smart" => Len(calls) < Len(Disks) /\ ENABLED SmartDisk)
    /\ [](/\ SmartReturned
          /\ Len(logs) = Len(Disks)
          /\ \A i \in 1..Len(logs) : RowCount(logs[i]) = 0
          => /\ serr = NoErr
             /\ oldest = 0
             /\ youngest = 2147483647)

\* checkSmartStatus has returned after six logs without a matching row
C25_Witness ==
    /\ SmartReturned
    /\ logs = [i \in 1..Len(Disks) |-> LogEmpty]
    /\ Len(calls) = Len(Disks)
    /\ serr = NoErr
    /\ oldest = 0
    /\ youngest = MaxInt32

====
